---- MODULE Spec2Model ----
(***************************************************************************)
(* OfferShield backend: the offer trust-scoring pipeline of                *)
(* onboardmate_lib.py and the Flask handlers of main.py.                   *)
(*                                                                         *)
(* Representation.  A JSON value is a tagged record.  A Python string is a *)
(* sequence of tokens; a token is a piece of text that the code's          *)
(* substring and pattern tests either contain or not (table Occurs), a     *)
(* whitespace token, or the "@" sign.  Flags are records holding the       *)
(* message template and its interpolated arguments.                        *)
(***************************************************************************)
EXTENDS Integers, Sequences, FiniteSets, TLC

VARIABLES
    file,       \* offershield_workspace/scam_reports.json
    request,    \* the request answered last: endpoint, JSON body, lookups
    response,   \* what its handler returned; NoResponse once it is sent
    workers,    \* concurrent /report-scam requests: position and locals
    acked,      \* the stored keys of the /report-scam requests answered 200
    agg,        \* aggregate_final_score applied to drawn sub-results
    calls       \* DNS, HTTP and summarizer calls made for the request served

vars == <<file, request, response, workers, acked, agg, calls>>

----------------------------------------------------------------------------
(* Bounds *)

MaxReports == 2      \* reports that reach record_scam_report in one run of the model
MaxWorkers == 2      \* concurrent /report-scam requests
MaxCount == 8        \* largest report count handed to aggregate_final_score

----------------------------------------------------------------------------
(* JSON values *)

Missing == [t |-> "missing"]                \* key absent from the object
Null == [t |-> "null"]
Str(s) == [t |-> "str", s |-> s]
Num(n) == [t |-> "num", n |-> n]
Bool(b) == [t |-> "bool", b |-> b]
List(l) == [t |-> "list", l |-> l]
Dict(d) == [t |-> "dict", d |-> d]

IsStr(v) == v.t = "str"

\* Python truth value of a JSON value (a missing key never reaches a test:
\* dict.get has replaced it by its default)
Truthy(v) ==
    CASE v.t = "str" -> v.s # <<>>
      [] v.t = "num" -> v.n # 0
      [] v.t = "bool" -> v.b
      [] v.t = "list" -> v.l # <<>>
      [] v.t = "dict" -> \E k \in DOMAIN v.d : v.d[k].t # "missing"
      [] OTHER -> FALSE

\* dict.get(key, default)
Get(d, k, default) == IF d[k].t = "missing" THEN default ELSE d[k]

\* Python `v or w`
Or(v, w) == IF Truthy(v) THEN v ELSE w

----------------------------------------------------------------------------
(* Strings *)

Whitespace == {" ", "\n"}

\* str.lower on one token
LowerTok(tok) ==
    CASE tok = "Processing Fee" -> "processing fee"
      [] tok = "PROCESSING FEE" -> "processing fee"
      [] tok = "WhatsApp only for communication" -> "whatsapp only for communication"
      [] tok = "Google" -> "google"
      [] tok = "Careers" -> "careers"
      [] tok = "Google.com" -> "google.com"
      [] tok = "Zoom" -> "zoom"
      [] tok = "Video Call" -> "video call"
      [] tok = "WhatsApp Call" -> "whatsapp call"
      [] tok = "Month" -> "month"
      [] tok = "Acme" -> "acme"
      [] tok = "INR" -> "inr"
      [] tok = "HTTPS://Bit.ly/Offer" -> "https://bit.ly/offer"
      [] OTHER -> tok

lower(s) == [i \in DOMAIN s |-> LowerTok(s[i])]

RECURSIVE lstrip(_)
lstrip(s) == IF s # <<>> /\ Head(s) \in Whitespace THEN lstrip(Tail(s)) ELSE s

RECURSIVE rstrip(_)
rstrip(s) ==
    IF s # <<>> /\ s[Len(s)] \in Whitespace
    THEN rstrip(SubSeq(s, 1, Len(s) - 1))
    ELSE s

strip(s) == rstrip(lstrip(s))

\* " ".join(s.split()): every run of whitespace becomes one space, none at
\* either end
RECURSIVE collapse(_)
collapse(s) ==
    IF s = <<>> THEN <<>>
    ELSE IF Head(s) \in Whitespace
         THEN LET rest == lstrip(s)
              IN IF rest = <<>> THEN <<>> ELSE <<" ">> \o collapse(rest)
         ELSE <<Head(s)>> \o collapse(Tail(s))

split_join(s) == collapse(lstrip(s))

\* The needles of the code's `in` tests and the literal patterns of its
\* re.search calls that occur inside one (lower-cased) token
Occurs(tok) ==
    CASE tok = "processing fee" -> {"processing fee"}
      [] tok = "whatsapp only for communication" ->
             {"whatsapp only for communication", "whatsapp", "whatsapp "}
      [] tok = "offer id" -> {"offer id"}
      [] tok = "registered office" -> {"registered office"}
      [] tok = "date of joining" -> {"date of joining", " joining"}
      [] tok = "pay" -> {"pay"}
      [] tok = "before joining" -> {"before joining", " joining"}
      [] tok = "reporting manager" -> {"reporting manager"}
      [] tok = "designation" -> {"designation"}
      [] tok = "ctc" -> {"ctc"}
      [] tok = "terms and conditions" -> {"terms and conditions"}
      [] tok = "hr contact" -> {"hr contact"}
      [] tok = "gst" -> {"gst"}
      [] tok = "video call" -> {"call"}
      [] tok = "whatsapp call" -> {"whatsapp", "whatsapp ", "call"}
      [] tok = "whatsapp" -> {"whatsapp"}
      [] tok = "phone" -> {"phone"}
      [] tok = "telegram" -> {"telegram"}
      [] tok = "intern" -> {"intern"}
      [] tok = "data analyst" -> {"data", "analyst"}
      [] OTHER -> {}

\* needle in s
In(needle, s) == \E i \in DOMAIN s : needle \in Occurs(s[i])

----------------------------------------------------------------------------
(* Offer hash *)

\* SHA-256 is taken to be injective: the digest of a text is represented by
\* the text that was digested
sha256(s) == s

compute_offer_hash(raw_text) == sha256(lower(strip(split_join(raw_text))))

----------------------------------------------------------------------------
\* an exception leaving the function
Raise == [ok |-> FALSE]

(* Scam-report store *)

\* The text of the characters s.  A character of the text of
\* scam_reports.json is a record: the character c, or, with
\* c = "hex", the i-th of the 64 characters of the digest h.  Which of
\* 0-9a-f a character of a digest is, is not modelled: it is taken to be no
\* digit.
Text(s) == [k \in DOMAIN s |-> [c |-> s[k], h |-> <<>>, i |-> 0]]

DigitChars == <<"0", "1", "2", "3", "4", "5", "6", "7", "8", "9">>

\* str(n) of an integer n >= 0
RECURSIVE DigitsOf(_)
DigitsOf(n) ==
    IF n < 10 THEN Text(<<DigitChars[n + 1]>>)
    ELSE DigitsOf(n \div 10) \o Text(<<DigitChars[(n % 10) + 1]>>)

\* The characters of a string key: the strings that stand for an offer hash
\* are the text "5" and the digests compute_offer_hash returns.
KeyChars(s) ==
    IF s = <<"5">> THEN Text(s)
    ELSE [i \in 1..64 |-> [c |-> "hex", h |-> s, i |-> i]]

\* A dict is the sequence of its entries [k |-> key, v |-> value] in the
\* order of insertion, the keys being the characters of a string.
EmptyDict == <<>>

\* data.get(h, 0)
Count(data, h) ==
    IF \E i \in DOMAIN data : data[i].k = h
    THEN data[CHOOSE i \in DOMAIN data : data[i].k = h].v
    ELSE 0

\* data[h] = n: a key the dict holds keeps its place
Put(data, h, n) ==
    IF \E i \in DOMAIN data : data[i].k = h
    THEN [i \in DOMAIN data |-> IF data[i].k = h THEN [k |-> h, v |-> n] ELSE data[i]]
    ELSE Append(data, [k |-> h, v |-> n])

\* The file scam_reports.json: whether it exists, and its text.
NoFile == [exists |-> FALSE, text |-> <<>>]

\* the file as open(..., "w") leaves it: created or truncated
EmptyFile == [exists |-> TRUE, text |-> <<>>]

\* json.loads skips blanks between the tokens
RECURSIVE SkipWs(_, _)
SkipWs(s, i) ==
    IF i <= Len(s) /\ s[i].c \in {" ", "\n"} THEN SkipWs(s, i + 1) ELSE i

\* the index of the quote that closes the string whose characters begin at
\* i, or 0: the text ends before, or a line break stands in the string
RECURSIVE StringEnd(_, _)
StringEnd(s, i) ==
    IF i > Len(s) \/ s[i].c = "\n" THEN 0
    ELSE IF s[i].c = "\"" THEN i
    ELSE StringEnd(s, i + 1)

\* the index after the digits that begin at i
RECURSIVE DigitsEnd(_, _)
DigitsEnd(s, i) ==
    IF i <= Len(s) /\ (\E d \in DOMAIN DigitChars : DigitChars[d] = s[i].c)
    THEN DigitsEnd(s, i + 1)
    ELSE i

\* the number the digits s[i..j] write
RECURSIVE Decimal(_, _, _)
Decimal(s, i, j) ==
    LET d == (CHOOSE k \in DOMAIN DigitChars : DigitChars[k] = s[j].c) - 1
    IN IF i = j THEN d ELSE 10 * Decimal(s, i, j - 1) + d

\* The JSON value that begins at i, as int() is to take it: [int |-> TRUE,
\* n |-> int(v)] for a number (0, or digits that do not begin with 0, and an
\* exponent of digits: the numbers of the model stay below 2^31), for true
\* and false, and for a string of digits between blanks;
\* [int |-> FALSE] for a value int() raises for (null, another string, a list,
\* a dict; a dict carries its entries as data).  Raise: json.loads raises.
\* The texts are written with the characters json.dumps writes for a dict
\* of counts, and with brackets and the letters of true, false and null.
RECURSIVE Value(_, _)
RECURSIVE Members(_, _, _)
RECURSIVE Member(_, _, _, _)
RECURSIVE Elements(_, _)
Value(s, i) ==
    IF i > Len(s) THEN Raise
    ELSE IF DigitsEnd(s, i) > i
    THEN LET e == IF s[i].c = "0" THEN i + 1 ELSE DigitsEnd(s, i)
             n == Decimal(s, i, e - 1)
         IN IF e <= Len(s) /\ s[e].c \in {"e", "E"} /\ DigitsEnd(s, e + 1) > e + 1
            THEN [ok |-> TRUE, end |-> DigitsEnd(s, e + 1),
                  v |-> [int |-> TRUE,
                         n |-> n * 10 ^ Decimal(s, e + 1, DigitsEnd(s, e + 1) - 1)]]
            ELSE [ok |-> TRUE, end |-> e, v |-> [int |-> TRUE, n |-> n]]
    ELSE IF s[i].c = "\""
    THEN LET j == StringEnd(s, i + 1)
             a == SkipWs(s, i + 1)
             b == DigitsEnd(s, a)
         IN IF j = 0 THEN Raise
            ELSE [ok |-> TRUE, end |-> j + 1,
                  v |-> IF a < b /\ SkipWs(s, b) = j
                        THEN [int |-> TRUE, n |-> Decimal(s, a, b - 1)]
                        ELSE [int |-> FALSE]]
    ELSE IF s[i].c = "{"
    THEN LET k == SkipWs(s, i + 1)
         IN IF k <= Len(s) /\ s[k].c = "}"
            THEN [ok |-> TRUE, end |-> k + 1, v |-> [int |-> FALSE, data |-> EmptyDict]]
            ELSE Members(s, k, EmptyDict)
    ELSE IF s[i].c = "["
    THEN LET k == SkipWs(s, i + 1)
         IN IF k <= Len(s) /\ s[k].c = "]"
            THEN [ok |-> TRUE, end |-> k + 1, v |-> [int |-> FALSE]]
            ELSE Elements(s, Value(s, k))
    ELSE IF i + 3 <= Len(s) /\ SubSeq(s, i, i + 3) = Text(<<"t", "r", "u", "e">>)
    THEN [ok |-> TRUE, end |-> i + 4, v |-> [int |-> TRUE, n |-> 1]]
    ELSE IF i + 4 <= Len(s) /\ SubSeq(s, i, i + 4) = Text(<<"f", "a", "l", "s", "e">>)
    THEN [ok |-> TRUE, end |-> i + 5, v |-> [int |-> TRUE, n |-> 0]]
    ELSE IF i + 3 <= Len(s) /\ SubSeq(s, i, i + 3) = Text(<<"n", "u", "l", "l">>)
    THEN [ok |-> TRUE, end |-> i + 4, v |-> [int |-> FALSE]]
    ELSE Raise

\* the JSON object whose members from the key at i on are added to the dict
\* acc
Members(s, i, acc) ==
    IF i > Len(s) \/ s[i].c # "\"" \/ StringEnd(s, i + 1) = 0 THEN Raise
    ELSE LET j == StringEnd(s, i + 1)
             colon == SkipWs(s, j + 1)
         IN IF colon > Len(s) \/ s[colon].c # ":" THEN Raise
            ELSE Member(s, SubSeq(s, i + 1, j - 1), Value(s, SkipWs(s, colon + 1)), acc)

\* the member key: v, v being what Value returned for its value, and the
\* members after it: the later of two entries under one key replaces the
\* value of the earlier
Member(s, key, v, acc) ==
    IF ~v.ok THEN Raise
    ELSE LET m == SkipWs(s, v.end)
         IN IF m > Len(s) THEN Raise
            ELSE IF s[m].c = "}"
            THEN [ok |-> TRUE, end |-> m + 1,
                  v |-> [int |-> FALSE, data |-> Put(acc, key, v.v)]]
            ELSE IF s[m].c = "," THEN Members(s, SkipWs(s, m + 1), Put(acc, key, v.v))
            ELSE Raise

\* the JSON list after its element v, v being what Value returned for it
Elements(s, v) ==
    IF ~v.ok THEN Raise
    ELSE LET m == SkipWs(s, v.end)
         IN IF m > Len(s) THEN Raise
            ELSE IF s[m].c = "]" THEN [ok |-> TRUE, end |-> m + 1, v |-> [int |-> FALSE]]
            ELSE IF s[m].c = "," THEN Elements(s, Value(s, SkipWs(s, m + 1)))
            ELSE Raise

\* l.141-143 for the text s, r being what Value returned for the JSON value
\* that begins after the leading blanks: {} when json.loads raises (no
\* value, or more than blanks after it), when the value is no dict, and when
\* int() raises for a value of the dict
Loaded(s, r) ==
    IF ~r.ok \/ SkipWs(s, r.end) # Len(s) + 1 THEN EmptyDict
    ELSE IF "data" \notin DOMAIN r.v THEN EmptyDict
    ELSE IF \E e \in DOMAIN r.v.data : ~r.v.data[e].v.int THEN EmptyDict
    ELSE [e \in DOMAIN r.v.data |-> [k |-> r.v.data[e].k, v |-> r.v.data[e].v.n]]

\* f is the file as exists() and read_text (l.141) returned it
_load_scam_reports(f) ==
    IF ~f.exists THEN EmptyDict
    ELSE Loaded(f.text, Value(f.text, SkipWs(f.text, 1)))

\* offer_hash is a JSON value; the keys of the loaded dict are strings
get_scam_report_stats(f, offer_hash) ==
    LET data == _load_scam_reports(f)
        count == IF IsStr(offer_hash) THEN Count(data, KeyChars(offer_hash.s)) ELSE 0
    IN [reports_count |-> count,
        status |-> IF count > 0 THEN "reported_scam" ELSE "not_reported"]

\* str(key) as json.dumps writes a key that is not a string
KeyText(key) ==
    CASE key.t = "num" -> DigitsOf(key.n)
      [] key.t = "bool" -> IF key.b THEN Text(<<"t", "r", "u", "e">>)
                           ELSE Text(<<"f", "a", "l", "s", "e">>)
      [] OTHER -> Text(<<"?">>)

\* the key of the store an offer hash is written under
StoredKey(v) == IF IsStr(v) THEN KeyChars(v.s) ELSE KeyText(v)

\* The dict of record_scam_report after
\* data[offer_hash] = data.get(offer_hash, 0) + 1.  The loaded dict `str` has
\* string keys only.  A string key is looked up and incremented.  A number
\* key is never found among them: data.get gives 0 and data[key] = 1 adds an
\* entry of its own, held in `other` under the text json.dumps writes for it.
incremented(data, offer_hash) ==
    IF IsStr(offer_hash)
    THEN [str |-> Put(data, KeyChars(offer_hash.s),
                      Count(data, KeyChars(offer_hash.s)) + 1),
          other |-> EmptyDict]
    ELSE [str |-> data, other |-> Put(EmptyDict, KeyText(offer_hash), 0 + 1)]

\* the lines '  "key": n' of the entries from the i-th on, joined by ",\n"
RECURSIVE Lines(_, _)
Lines(entries, i) ==
    IF i > Len(entries) THEN <<>>
    ELSE Text(<<" ", " ", "\"">>) \o entries[i].k \o Text(<<"\"", ":", " ">>)
         \o DigitsOf(entries[i].v)
         \o (IF i < Len(entries) THEN Text(<<",", "\n">>) ELSE <<>>)
         \o Lines(entries, i + 1)

\* json.dumps(data, indent=2): "{}" for no entry, else "{\n", the entries in
\* the order of the dict, and "\n}".  The entry of a number key comes last.
json_dumps(d) ==
    [exists |-> TRUE,
     text |-> IF d.str \o d.other = <<>> THEN Text(<<"{", "}">>)
              ELSE Text(<<"{", "\n">>) \o Lines(d.str \o d.other, 1)
                   \o Text(<<"\n", "}">>)]

\* f.write(text) at offset 0 of the file f: the text replaces the first
\* characters of f, and what f holds beyond them stays
written(f, text) ==
    [exists |-> TRUE,
     text |-> text.text \o SubSeq(f.text, Len(text.text) + 1, Len(f.text))]

----------------------------------------------------------------------------
(* Results, exceptions and flags *)

\* (v or "").strip() and its like raise AttributeError when v is truthy and
\* not a string; otherwise the receiver is StrOf(v)
BadStr(v) == Truthy(v) /\ ~IsStr(v)
StrOf(v) == IF Truthy(v) /\ IsStr(v) THEN v.s ELSE <<>>

Flag(msg, arg, num) == [msg |-> msg, arg |-> arg, num |-> num]

Max(a, b) == IF a >= b THEN a ELSE b
Min(a, b) == IF a <= b THEN a ELSE b

\* ', '.join(list of strings)
RECURSIVE JoinComma(_)
JoinComma(l) ==
    IF l = <<>> THEN <<>>
    ELSE IF Len(l) = 1 THEN l[1]
    ELSE l[1] \o <<", ">> \o JoinComma(Tail(l))

----------------------------------------------------------------------------
(* Static data *)

OFFICIAL_HR_EMAILS(name) ==
    CASE name = <<"google">> ->
             << <<"no-reply", "@", "google.com">>, <<"careers", "@", "google.com">> >>
      [] name = <<"amazon">> ->
             << <<"no-reply", "@", "amazon.com">>, <<"campus-hire", "@", "amazon.com">> >>
      [] name = <<"microsoft">> ->
             << <<"microsoft", "@", "e-mail.microsoft.com">>,
                <<"msrecruit", "@", "microsoft.com">> >>
      [] name = <<"accenture">> ->
             << <<"careers", "@", "accenture.com">>, <<"recruitment", "@", "accenture.com">> >>
      [] name = <<"deloitte">> ->
             << <<"recruiting", "@", "deloitte.com">>,
                <<"campusrecruiting", "@", "deloitte.com">> >>
      [] name = <<"infosys">> ->
             << <<"hr", "@", "infosys.com">>, <<"recruitment", "@", "infosys.com">> >>
      [] name = <<"tcs">> ->
             << <<"hr", "@", "tcs.com">>, <<"recruitment", "@", "tcs.com">> >>
      [] name = <<"jpmorgan">> -> << <<"recruiting", "@", "jpmorgan.com">> >>
      [] name = <<"meta">> ->
             << <<"no-reply", "@", "fb.com">>, <<"recruiting", "@", "fb.com">> >>
      [] OTHER -> <<>>

FREE_EMAIL_DOMAINS ==
    { <<"gmail.com">>, <<"yahoo.com">>, <<"outlook.com">>, <<"hotmail.com">>,
      <<"rediffmail.com">>, <<"proton.me">>, <<"icloud.com">> }

\* Each pattern is the sequence of its parts as written in the source;
\* consecutive parts are joined by `.*` there.  (The class of the thirteenth
\* risk pattern also holds the typographic apostrophe.)
RISKY_LANGUAGE_PATTERNS ==
    << <<"processing fee">>, <<"registration fee">>, <<"registration amount">>,
       <<"training fee">>, <<"refundable fee">>, <<"urgent payment">>,
       <<"pay", "before joining">>, <<"no interview required">>,
       <<"without any interview">>, <<"confirm within 24 hours">>,
       <<"confirm in 24 hours">>, <<"do not share this offer">>,
       <<"don[']t share this offer">>, <<"whatsapp ", " joining">>,
       <<"whatsapp only for communication">>, <<"certificate fee">>,
       <<"security deposit">>, <<"slot will be given to next candidate">> >>

WHATSAPP_TELEGRAM_PATTERNS ==
    << <<"whatsapp">>, <<"wa\\.me/">>, <<"\\+?\\d{10,13}", "whatsapp">>,
       <<"telegram">>, <<"t\\.me/">>, <<"signal">> >>

SECTION_KEYS ==
    <<"offer_id", "address", "joining_date", "manager", "role", "ctc", "tnc",
      "contact", "company_ids">>

SECTION_KEYWORDS(key) ==
    CASE key = "offer_id" -> {"offer id", "reference no", "ref no"}
      [] key = "address" -> {"registered office", "corporate office", "address"}
      [] key = "joining_date" -> {"date of joining", "doj", "joining date"}
      [] key = "manager" -> {"reporting manager", "reports to", "supervisor"}
      [] key = "role" -> {"designation", "position", "job title", "role"}
      [] key = "ctc" -> {"ctc", "compensation", "salary structure", "remuneration"}
      [] key = "tnc" -> {"terms and conditions", "terms & conditions", "termination",
                         "bond period"}
      [] key = "contact" -> {"hr contact", "contact number", "reach out to",
                             "email us at"}
      [] key = "company_ids" -> {"gst", "pan", "cin"}

\* (low, high) for a benchmark key, <<>> when the key has no benchmark
SALARY_BENCHMARKS(region, bucket, period) ==
    CASE region = <<"india">> /\ bucket = "fresher_software_engineer"
             /\ period = <<"month">> -> <<20000, 90000>>
      [] region = <<"india">> /\ bucket = "fresher_data_analyst"
             /\ period = <<"month">> -> <<20000, 80000>>
      [] region = <<"india">> /\ bucket = "intern" /\ period = <<"month">> -> <<0, 35000>>
      [] region = <<"us">> /\ bucket = "fresher_software_engineer"
             /\ period = <<"year">> -> <<60000, 200000>>
      [] region = <<"us">> /\ bucket = "intern" /\ period = <<"month">> -> <<2000, 10000>>
      [] OTHER -> <<>>

----------------------------------------------------------------------------
(* Feature 1: company authenticity *)

_extract_domain_from_email(email) ==
    IF BadStr(email) THEN Raise
    ELSE LET e == lower(strip(StrOf(email)))
             ats == {i \in DOMAIN e : e[i] = "@"}
         IN IF ats = {} THEN [ok |-> TRUE, domain |-> Null]
            ELSE LET first == CHOOSE i \in ats : \A j \in ats : i <= j
                 IN [ok |-> TRUE, domain |-> Str(SubSeq(e, first + 1, Len(e)))]

\* mutant: HTTP and HTTPS are probed although the name did not resolve
_check_domain_http_noskip(domain, net) ==
    [http_ok |-> net.http, https_ok |-> net.https, calls |-> <<"dns", "http", "https">>]

\* net: what the network does for this call: dns resolves or not, and each
\* GET answers with a status below 500 or not (an exception counts as not)
_check_domain_http(domain, net) ==
    IF ~net.dns THEN [http_ok |-> FALSE, https_ok |-> FALSE, calls |-> <<"dns">>]
    ELSE [http_ok |-> net.http, https_ok |-> net.https,
          calls |-> <<"dns", "http", "https">>]

InList(x, l) == \E i \in DOMAIN l : l[i] = x

company_authenticity_check(company_name, hr_email, net) ==
    IF BadStr(company_name) THEN Raise
    ELSE
    LET company_name_norm == lower(strip(StrOf(company_name)))
        dom == _extract_domain_from_email(hr_email)
    IN IF ~dom.ok THEN Raise
       ELSE IF ~Truthy(dom.domain)
       THEN [ok |-> TRUE, score |-> Max(100 - 25, 0),
             flags |-> <<Flag("No valid HR email domain found.", <<>>, <<>>)>>,
             domain |-> Null, used_free_email |-> FALSE,
             domain_reachable |-> FALSE, https_ok |-> FALSE, calls |-> <<>>]
       ELSE
       LET domain == dom.domain.s
           used_free_email == domain \in FREE_EMAIL_DOMAINS
           official_emails == OFFICIAL_HR_EMAILS(company_name_norm)
           mismatch == /\ official_emails # <<>>
                       /\ ~InList(lower(strip(hr_email.s)),
                                  [i \in DOMAIN official_emails |->
                                      lower(official_emails[i])])
           probe == _check_domain_http(domain, net)
           domain_reachable == probe.http_ok \/ probe.https_ok
           http_only == probe.http_ok /\ ~probe.https_ok
           score == 100 - (IF used_free_email THEN 35 ELSE 0)
                        - (IF mismatch THEN 25 ELSE 0)
                        - (IF ~domain_reachable THEN 20 ELSE 0)
                        - (IF http_only THEN 10 ELSE 0)
           flags ==
               (IF used_free_email
                THEN <<Flag("HR email uses free provider ({domain}).", domain, <<>>)>>
                ELSE <<>>)
               \o (IF mismatch
                   THEN <<Flag("HR email does not match known official addresses for this company.",
                               <<>>, <<>>)>>
                   ELSE <<>>)
               \o (IF ~domain_reachable
                   THEN <<Flag("Company email domain does not appear to be reachable.",
                               <<>>, <<>>)>>
                   ELSE <<>>)
               \o (IF http_only
                   THEN <<Flag("Domain only responds over HTTP (no HTTPS).", <<>>, <<>>)>>
                   ELSE <<>>)
       IN [ok |-> TRUE, score |-> Max(Min(score, 100), 0), flags |-> flags,
           domain |-> Str(domain), used_free_email |-> used_free_email,
           domain_reachable |-> domain_reachable, https_ok |-> probe.https_ok,
           calls |-> probe.calls]

----------------------------------------------------------------------------
(* Features 3 and 10: language risk *)

\* re.search(pattern, text) for a pattern of one or two literal parts; `.`
\* does not match a line break, so the two parts lie on one line
Search(pattern, text) ==
    IF Len(pattern) = 1 THEN In(pattern[1], text)
    ELSE \E i, j \in DOMAIN text :
            /\ i < j
            /\ pattern[1] \in Occurs(text[i])
            /\ pattern[2] \in Occurs(text[j])
            /\ \A k \in i..j : text[k] # "\n"

\* the patterns of the list that match, in list order
RECURSIVE Hits(_, _)
Hits(patterns, text) ==
    IF patterns = <<>> THEN <<>>
    ELSE (IF Search(Head(patterns), text) THEN <<Head(patterns)>> ELSE <<>>)
         \o Hits(Tail(patterns), text)

language_risk_check(raw_text) ==
    LET text == lower(raw_text)
        risk_hits == Hits(RISKY_LANGUAGE_PATTERNS, text)
        wt_hits == Hits(WHATSAPP_TELEGRAM_PATTERNS, text)
        score == 100 - Min(70, 10 * Len(risk_hits)) - Min(20, 5 * Len(wt_hits))
    IN [score |-> Max(score, 0), risk_phrases |-> risk_hits,
        whatsapp_telegram_mentions |-> wt_hits]

----------------------------------------------------------------------------
(* Feature 5: compensation reality check *)

\* Amounts are kept in hundredths, so that "12.5" and 12 differ
NoAmount == [none |-> TRUE, x100 |-> 0]
Amount(x100) == [none |-> FALSE, x100 |-> x100]

DigitRuns ==
    {"0", "1", "5", "00", "01", "25", "30", "50", "99", "000", "5000", "5999", "50000",
     "117000", "180000", "200000"}

DigitVal(tok) ==
    CASE tok = "0" -> 0 [] tok = "1" -> 1 [] tok = "5" -> 5 [] tok = "00" -> 0
      [] tok = "01" -> 1 [] tok = "99" -> 99
      [] tok = "25" -> 25 [] tok = "30" -> 30 [] tok = "50" -> 50
      [] tok = "000" -> 0 [] tok = "5000" -> 5000 [] tok = "5999" -> 5999
      [] tok = "180000" -> 180000
      [] tok = "50000" -> 50000 [] tok = "117000" -> 117000
      [] tok = "200000" -> 200000

DigitLen(tok) ==
    CASE tok \in {"0", "1", "5"} -> 1 [] tok \in {"00", "01", "25", "30", "50", "99"} -> 2
      [] tok = "000" -> 3 [] tok \in {"5000", "5999"} -> 4 [] tok = "50000" -> 5
      [] tok \in {"117000", "180000", "200000"} -> 6

RECURSIVE Pow10(_)
Pow10(n) == IF n = 0 THEN 1 ELSE 10 * Pow10(n - 1)

\* the digits at the head of s: their value, their number, and what follows
RECURSIVE ReadDigits(_, _, _)
ReadDigits(s, val, len) ==
    IF s # <<>> /\ Head(s) \in DigitRuns
    THEN ReadDigits(Tail(s), val * Pow10(DigitLen(Head(s))) + DigitVal(Head(s)),
                    len + DigitLen(Head(s)))
    ELSE [val |-> val, len |-> len, rest |-> s]

\* re.search(r"\d+(\.\d+)?", s) and float() of the match, in hundredths
\* (fractions of at most two digits)
RECURSIVE FirstNumber(_)
FirstNumber(s) ==
    IF s = <<>> THEN NoAmount
    ELSE IF Head(s) \notin DigitRuns THEN FirstNumber(Tail(s))
    ELSE LET int == ReadDigits(s, 0, 0)
             frac == IF int.rest # <<>> /\ Head(int.rest) = "."
                     THEN ReadDigits(Tail(int.rest), 0, 0)
                     ELSE [val |-> 0, len |-> 0, rest |-> <<>>]
         IN Amount(100 * int.val
                   + (IF frac.len = 0 THEN 0
                      ELSE IF frac.len = 1 THEN 10 * frac.val ELSE frac.val))

_parse_salary_amount(raw) ==
    CASE raw.t \in {"null", "missing"} -> NoAmount
      [] raw.t = "num" -> Amount(100 * raw.n)
      [] raw.t = "bool" -> Amount(IF raw.b THEN 100 ELSE 0)
      [] raw.t = "str" ->
             FirstNumber(SelectSeq(raw.s, LAMBDA tok : tok \notin {"₹", "$", ","}))
      [] OTHER -> NoAmount     \* str() of an empty list or object has no digit

\* what an f-string makes of the region hint
Format(v) == IF IsStr(v) THEN v.s ELSE <<"<repr>">>

\* the seniority bucket of the benchmark key
Bucket(job_role) ==
    LET role_lower == lower(StrOf(job_role))
    IN IF In("intern", role_lower) THEN "intern"
       ELSE IF In("data", role_lower) /\ In("analyst", role_lower)
            THEN "fresher_data_analyst"
            ELSE "fresher_software_engineer"

\* SALARY_BENCHMARKS.get(key)
Benchmark(salary_period, job_role, region_hint) ==
    SALARY_BENCHMARKS(Format(region_hint), Bucket(job_role), lower(StrOf(salary_period)))

\* mutant: an amount of exactly 130% of the upper end is penalized
salary_plausibility_check_inclusive(salary_amount, salary_currency, salary_period, job_role, region_hint) ==
    LET amount == _parse_salary_amount(salary_amount)
    IN IF amount.none
       THEN [ok |-> TRUE, score |-> 100,
             flags |-> <<Flag("Could not parse salary amount; skipping salary realism checks.",
                              <<>>, <<>>)>>,
             parsed_amount |-> NoAmount]
       ELSE IF BadStr(salary_currency) \/ BadStr(salary_period) \/ BadStr(job_role)
       THEN Raise
       ELSE
       LET period == lower(StrOf(salary_period))
           bucket == Bucket(job_role)
           bench == Benchmark(salary_period, job_role, region_hint)
       IN IF bench = <<>>
          THEN [ok |-> TRUE, score |-> 100,
                flags |-> <<Flag("No salary benchmark defined for key '{key}'. Using neutral score.",
                                 Format(region_hint) \o <<"_", bucket, "_">> \o period,
                                 <<>>)>>,
                parsed_amount |-> amount]
          ELSE
          LET low == bench[1]
              high == bench[2]
              nums == <<amount.x100, low, high>>
              too_low == amount.x100 * 10 < low * 100 * 3
              too_high == ~too_low /\ amount.x100 > high * 100 * 2
              high_ish == ~too_low /\ ~too_high /\ amount.x100 * 10 >= high * 100 * 13
              score == 100 - (IF too_low THEN 30 ELSE 0) - (IF too_high THEN 40 ELSE 0)
                           - (IF high_ish THEN 15 ELSE 0)
              flags ==
                  IF too_low
                  THEN <<Flag("Offered salary ({amount}) is extremely low compared to typical range {low}-{high}.",
                              <<>>, nums)>>
                  ELSE IF too_high
                  THEN <<Flag("Offered salary ({amount}) is extremely high compared to typical range {low}-{high}.",
                              <<>>, nums)>>
                  ELSE IF high_ish
                  THEN <<Flag("Offered salary ({amount}) is higher than usual; verify with official HR.",
                              <<>>, <<amount.x100>>)>>
                  ELSE <<>>
          IN [ok |-> TRUE, score |-> Max(score, 0), flags |-> flags,
              parsed_amount |-> amount]

salary_plausibility_check(salary_amount, salary_currency, salary_period, job_role, region_hint) ==
    LET amount == _parse_salary_amount(salary_amount)
    IN IF amount.none
       THEN [ok |-> TRUE, score |-> 100,
             flags |-> <<Flag("Could not parse salary amount; skipping salary realism checks.",
                              <<>>, <<>>)>>,
             parsed_amount |-> NoAmount]
       ELSE IF BadStr(salary_currency) \/ BadStr(salary_period) \/ BadStr(job_role)
       THEN Raise
       ELSE
       LET period == lower(StrOf(salary_period))
           bucket == Bucket(job_role)
           bench == Benchmark(salary_period, job_role, region_hint)
       IN IF bench = <<>>
          THEN [ok |-> TRUE, score |-> 100,
                flags |-> <<Flag("No salary benchmark defined for key '{key}'. Using neutral score.",
                                 Format(region_hint) \o <<"_", bucket, "_">> \o period,
                                 <<>>)>>,
                parsed_amount |-> amount]
          ELSE
          LET low == bench[1]
              high == bench[2]
              nums == <<amount.x100, low, high>>
              too_low == amount.x100 * 10 < low * 100 * 3
              too_high == ~too_low /\ amount.x100 > high * 100 * 2
              high_ish == ~too_low /\ ~too_high /\ amount.x100 * 10 > high * 100 * 13
              score == 100 - (IF too_low THEN 30 ELSE 0) - (IF too_high THEN 40 ELSE 0)
                           - (IF high_ish THEN 15 ELSE 0)
              flags ==
                  IF too_low
                  THEN <<Flag("Offered salary ({amount}) is extremely low compared to typical range {low}-{high}.",
                              <<>>, nums)>>
                  ELSE IF too_high
                  THEN <<Flag("Offered salary ({amount}) is extremely high compared to typical range {low}-{high}.",
                              <<>>, nums)>>
                  ELSE IF high_ish
                  THEN <<Flag("Offered salary ({amount}) is higher than usual; verify with official HR.",
                              <<>>, <<amount.x100>>)>>
                  ELSE <<>>
          IN [ok |-> TRUE, score |-> Max(score, 0), flags |-> flags,
              parsed_amount |-> amount]

----------------------------------------------------------------------------
(* Feature 9: link validation *)

\* tokens that begin with "http://" or "https://" (the pattern is
\* case-sensitive)
UrlTokens ==
    {"https://bit.ly/offer", "http://apply-now.xyz/form",
     "http://google-jobs1.xyz/apply", "https://careers.google.com/jobs",
     "https://t.co.jobs.top/a"}

\* a match of https?://[^\s]+ runs to the next whitespace
RECURSIVE UntilSpace(_)
UntilSpace(s) ==
    IF s = <<>> \/ Head(s) \in Whitespace THEN <<>>
    ELSE <<Head(s)>> \o UntilSpace(Tail(s))

RECURSIVE extract_urls(_)
extract_urls(raw_text) ==
    IF raw_text = <<>> THEN <<>>
    ELSE IF Head(raw_text) \in UrlTokens
         THEN LET url == UntilSpace(raw_text)
              IN <<Str(url)>> \o extract_urls(SubSeq(raw_text, Len(url) + 1, Len(raw_text)))
         ELSE extract_urls(Tail(raw_text))

\* re.sub(r"^https?://", "", url).split("/", 1)[0].lower(): the host lies in
\* the first token of the url
HostOf(url) ==
    IF url = <<>> THEN ""
    ELSE CASE url[1] = "https://bit.ly/offer" -> "bit.ly"
           [] url[1] = "http://apply-now.xyz/form" -> "apply-now.xyz"
           [] url[1] = "http://google-jobs1.xyz/apply" -> "google-jobs1.xyz"
           [] url[1] = "https://careers.google.com/jobs" -> "careers.google.com"
           [] url[1] = "https://t.co.jobs.top/a" -> "t.co.jobs.top"
           [] url[1] = "HTTPS://Bit.ly/Offer" -> "https:"
           [] OTHER -> LowerTok(url[1])

\* any(host.startswith(s) for s in URL_SHORTENERS)
StartsWithShortener(host) == host \in {"bit.ly", "t.co.jobs.top"}

\* host.endswith(tld) for some tld of SUSPICIOUS_LINK_TLDS
EndsWithSuspiciousTld(host) == host \in {"apply-now.xyz", "google-jobs1.xyz", "t.co.jobs.top"}

\* a digit 0/1/3 or "@" in the host, and a brand name in it
LookAlike(host) == host \in {"google-jobs1.xyz"}

RECURSIVE LinkLoop(_, _)
LinkLoop(urls, acc) ==
    IF urls = <<>> THEN acc
    ELSE LET url == Head(urls)
         IN IF ~IsStr(url) THEN LinkLoop(Tail(urls), acc)   \* TypeError: continue
            ELSE LET host == HostOf(url.s)
                     short == StartsWithShortener(host)
                     tld == EndsWithSuspiciousTld(host)
                     look == LookAlike(host)
                 IN LinkLoop(Tail(urls),
                      [score |-> acc.score - (IF short THEN 10 ELSE 0)
                                           - (IF tld THEN 15 ELSE 0)
                                           - (IF look THEN 20 ELSE 0),
                       short |-> acc.short \o (IF short THEN <<url.s>> ELSE <<>>),
                       suspicious |-> acc.suspicious
                                      \o (IF tld THEN <<url.s>> ELSE <<>>)
                                      \o (IF look THEN <<url.s>> ELSE <<>>)])

link_risk_check(urls) ==
    IF urls.t \in {"num", "bool"} THEN Raise      \* not iterable
    \* `for url in urls`: a list yields its items, a string its characters and
    \* an object its keys (strings without a host of interest)
    ELSE LET r == LinkLoop(IF urls.t = "list" THEN urls.l ELSE <<>>,
                           [score |-> 100, short |-> <<>>, suspicious |-> <<>>])
         IN [ok |-> TRUE, score |-> Max(r.score, 0), suspicious_links |-> r.suspicious,
             short_links |-> r.short]

----------------------------------------------------------------------------
(* Feature 11: interview plausibility *)

\* int(duration) inside the try: the number, or no number when it raises
IntOf(v) ==
    CASE v.t = "num" -> [ok |-> TRUE, n |-> v.n]
      [] v.t = "bool" -> [ok |-> TRUE, n |-> IF v.b THEN 1 ELSE 0]
      [] v.t = "str" /\ Len(strip(v.s)) = 1 /\ strip(v.s)[1] \in DigitRuns ->
             [ok |-> TRUE, n |-> DigitVal(strip(v.s)[1])]
      [] OTHER -> [ok |-> FALSE, n |-> 0]

\* mutant: the audio-call penalty is applied to a WhatsApp or Telegram call too
interview_plausibility_check_additive(info) ==
    IF info.t # "dict" THEN Raise                 \* no attribute 'get'
    ELSE
    LET had_interview == Truthy(info.d.had_interview)
        channel_raw == Or(Get(info.d, "channel", Null), Str(<<>>))
        duration == Get(info.d, "duration_minutes", Null)
        asked_technical == Get(info.d, "asked_technical", Null)
    IN IF ~IsStr(channel_raw) THEN Raise           \* no attribute 'lower'
       ELSE
       LET channel == lower(channel_raw.s)
           informal == had_interview /\ (In("whatsapp", channel) \/ In("telegram", channel))
           audio == had_interview /\ (In("phone", channel) \/ In("call", channel))
           d == IF duration.t = "null" THEN [ok |-> FALSE, n |-> 0] ELSE IntOf(duration)
           under5 == d.ok /\ d.n < 5
           under15 == d.ok /\ ~under5 /\ d.n < 15
           no_tech == asked_technical = Bool(FALSE)
           score == 100 - (IF ~had_interview THEN 35 ELSE 0)
                        - (IF informal THEN 30 ELSE 0)
                        - (IF audio THEN 10 ELSE 0)
                        - (IF under5 THEN 20 ELSE 0)
                        - (IF under15 THEN 10 ELSE 0)
                        - (IF no_tech THEN 20 ELSE 0)
           flags ==
               (IF ~had_interview
                THEN <<Flag("Candidate reports no interview occurred before offer.", <<>>, <<>>)>>
                ELSE (IF informal
                      THEN <<Flag("Interview was conducted via WhatsApp/Telegram.", <<>>, <<>>)>>
                      ELSE <<>>)
                     \o (IF audio
                         THEN <<Flag("Interview was only an audio call; verify carefully.",
                                     <<>>, <<>>)>>
                         ELSE <<>>))
               \o (IF under5
                   THEN <<Flag("Interview duration was less than 5 minutes.", <<>>, <<>>)>>
                   ELSE IF under15
                   THEN <<Flag("Interview duration was very short (< 15 minutes).", <<>>, <<>>)>>
                   ELSE <<>>)
               \o (IF no_tech
                   THEN <<Flag("No technical questions were asked for a technical-looking role.",
                               <<>>, <<>>)>>
                   ELSE <<>>)
       IN [ok |-> TRUE, score |-> Max(score, 0), flags |-> flags]

\* info: the value of `payload.get("interview") or {}`
interview_plausibility_check(info) ==
    IF info.t # "dict" THEN Raise                 \* no attribute 'get'
    ELSE
    LET had_interview == Truthy(info.d.had_interview)
        channel_raw == Or(Get(info.d, "channel", Null), Str(<<>>))
        duration == Get(info.d, "duration_minutes", Null)
        asked_technical == Get(info.d, "asked_technical", Null)
    IN IF ~IsStr(channel_raw) THEN Raise           \* no attribute 'lower'
       ELSE
       LET channel == lower(channel_raw.s)
           informal == had_interview /\ (In("whatsapp", channel) \/ In("telegram", channel))
           audio == had_interview /\ ~informal
                    /\ (In("phone", channel) \/ In("call", channel))
           d == IF duration.t = "null" THEN [ok |-> FALSE, n |-> 0] ELSE IntOf(duration)
           under5 == d.ok /\ d.n < 5
           under15 == d.ok /\ ~under5 /\ d.n < 15
           no_tech == asked_technical = Bool(FALSE)
           score == 100 - (IF ~had_interview THEN 35 ELSE 0)
                        - (IF informal THEN 30 ELSE 0)
                        - (IF audio THEN 10 ELSE 0)
                        - (IF under5 THEN 20 ELSE 0)
                        - (IF under15 THEN 10 ELSE 0)
                        - (IF no_tech THEN 20 ELSE 0)
           flags ==
               (IF ~had_interview
                THEN <<Flag("Candidate reports no interview occurred before offer.", <<>>, <<>>)>>
                ELSE IF informal
                THEN <<Flag("Interview was conducted via WhatsApp/Telegram.", <<>>, <<>>)>>
                ELSE IF audio
                THEN <<Flag("Interview was only an audio call; verify carefully.", <<>>, <<>>)>>
                ELSE <<>>)
               \o (IF under5
                   THEN <<Flag("Interview duration was less than 5 minutes.", <<>>, <<>>)>>
                   ELSE IF under15
                   THEN <<Flag("Interview duration was very short (< 15 minutes).", <<>>, <<>>)>>
                   ELSE <<>>)
               \o (IF no_tech
                   THEN <<Flag("No technical questions were asked for a technical-looking role.",
                               <<>>, <<>>)>>
                   ELSE <<>>)
       IN [ok |-> TRUE, score |-> Max(score, 0), flags |-> flags]

----------------------------------------------------------------------------
(* Feature 12: offer structure validation *)

required_keys == <<"offer_id", "joining_date", "role", "ctc", "tnc", "contact">>

structure_validation_check(raw_text) ==
    LET text == lower(raw_text)
        sections_found ==
            [i \in DOMAIN SECTION_KEYS |->
                \E k \in SECTION_KEYWORDS(SECTION_KEYS[i]) : In(k, text)]
        found(key) == \E i \in DOMAIN SECTION_KEYS :
                          SECTION_KEYS[i] = key /\ sections_found[i]
        missing == SelectSeq(required_keys, LAMBDA k : ~found(k))
        total_required == Len(required_keys)
        present_count == total_required - Len(missing)
        \* int((present_count / total_required) * 100)
        base0 == (present_count * 100) \div Max(total_required, 1)
        base1 == IF ~found("address") THEN Max(base0 - 10, 0) ELSE base0
        base2 == IF ~found("company_ids") THEN Max(base1 - 5, 0) ELSE base1
    IN [score |-> base2, sections_found |-> sections_found,
        missing_sections |-> missing]

----------------------------------------------------------------------------
(* Features 2, 8 and 13: document integrity and role consistency (LLM) *)

\* llm: what the summarizer does for this call: whether OPENAI_API_KEY is
\* set, whether the openai package was importable, whether the request
\* raises, and the message content it answers with (null or a string)
_call_llm(llm) ==
    IF ~llm.api_key \/ ~llm.client THEN <<>>
    ELSE IF llm.raises THEN <<>>
    ELSE strip(StrOf(llm.content))

\* the number captured by SCORE:\s*(\d+) in one token, -1 when the token
\* holds no match
ScoreIn(tok) ==
    CASE tok = "SCORE: 0" -> 0
      [] tok = "SCORE: 25" -> 25
      [] tok = "SCORE: 60" -> 60
      [] tok = "SCORE: 100" -> 100
      [] tok = "SCORE: 250" -> 250
      [] tok = "SCORE:85" -> 85
      [] OTHER -> -1        \* "score: 90", "SCORE: -5", "Looks professional."

\* re.search: the leftmost match
RECURSIVE FirstScore(_)
FirstScore(s) ==
    IF s = <<>> THEN -1
    ELSE IF ScoreIn(Head(s)) >= 0 THEN ScoreIn(Head(s))
    ELSE FirstScore(Tail(s))

\* mutant: the default is the bottom of the range
LlmScore_zero(llm_output) ==
    LET m == FirstScore(llm_output)
    IN IF m >= 0 THEN Max(0, Min(100, m)) ELSE 0

\* mutant: the captured number is used as it is
LlmScore_unclamped(llm_output) ==
    LET m == FirstScore(llm_output)
    IN IF m >= 0 THEN m ELSE 60

LlmScore(llm_output) ==
    LET m == FirstScore(llm_output)
    IN IF m >= 0 THEN Max(0, Min(100, m)) ELSE 60

document_integrity_and_explainability(llm) ==
    LET llm_output == _call_llm(llm)
    IN [score |-> LlmScore(llm_output), summary |-> strip(llm_output)]

role_consistency_check(llm) ==
    LET llm_output == _call_llm(llm)
    IN [score |-> LlmScore(llm_output), summary |-> strip(llm_output)]

----------------------------------------------------------------------------
(* Feature 6: company existence *)

company_existence_check(company_name, hr_email, net) ==
    LET dom == _extract_domain_from_email(hr_email)
    IN IF ~dom.ok THEN Raise
       ELSE IF ~Truthy(dom.domain)
       THEN [ok |-> TRUE, score |-> Max(100 - 20, 0),
             flags |-> <<Flag("No domain available to check company existence.", <<>>, <<>>)>>,
             checked_domain |-> Null, calls |-> <<>>]
       ELSE
       LET probe == _check_domain_http(dom.domain.s, net)
           dead == ~(probe.http_ok \/ probe.https_ok)
       IN [ok |-> TRUE, score |-> Max(100 - (IF dead THEN 30 ELSE 0), 0),
           flags |-> IF dead
                     THEN <<Flag("Company domain did not respond over HTTP/HTTPS.", <<>>, <<>>)>>
                     ELSE <<>>,
           checked_domain |-> dom.domain, calls |-> probe.calls]

----------------------------------------------------------------------------
(* Features 13 and 15: explanation aggregator and final trust score *)

\* mutant: the weights of company and language exchanged
weights_swapped ==
    [company |-> 15, language |-> 20, salary |-> 10, links |-> 5, interview |-> 10,
     structure |-> 10, document |-> 10, role |-> 10, company_exist |-> 5, scam |-> 5]

\* the weights, in hundredths
weights ==
    [company |-> 20, language |-> 15, salary |-> 10, links |-> 5, interview |-> 10,
     structure |-> 10, document |-> 10, role |-> 10, company_exist |-> 5, scam |-> 5]

trust_scam(reports_count) == Max(0, 100 - reports_count * 15)

\* The floats of the weighted sum.  An IEEE-754 double x that is zero or lies
\* in 2^-8 <= x < 2^9 is held exactly as the pair [E, d] of integers with
\* x = E/20 + d/(20 * 2^60): E/20 is the value the decimal arithmetic gives
\* and d is what the binary representation adds to it.

\* the double of a weight literal given in hundredths: 0.2, 0.15, 0.1, 0.05
FloatWeight(w100) ==
    [E |-> w100 \div 5,
     d |-> CASE w100 = 20 -> 256
             [] w100 = 15 -> -128
             [] w100 = 10 -> 128
             [] w100 = 5 -> 64]

\* whether the value [E, d] is at least 2^e
AtLeastPow2(E, d, e) ==
    E * 256 > 20 * 2^(e + 8) \/ (E * 256 = 20 * 2^(e + 8) /\ d >= 0)

\* the exponent e of the value [E, d]: 2^e <= value < 2^(e + 1)
Binade(E, d) == CHOOSE e \in -8..8 : AtLeastPow2(E, d, e) /\ ~AtLeastPow2(E, d, e + 1)

\* round to nearest, ties to even, of the value [E, d] of exponent e to the
\* 53 bits of a double.  In units of 1/(20 * 2^60) one ulp is 20 * 2^(e + 8);
\* t is the value modulo two ulps, from E * 2^60 + d.
RoundAt(E, d, e) ==
    LET ulp == 20 * 2^(e + 8)
        t == (2^(e + 11) * (((E % 5) * (2^((49 - e) % 4) % 5)) % 5) + d) % (2 * ulp)
        r == t % ulp
    IN IF 2 * r < ulp \/ (2 * r = ulp /\ t < ulp)
       THEN [E |-> E, d |-> d - r]
       ELSE [E |-> E, d |-> d + (ulp - r)]

\* the double nearest to the real number [E, d]
float_round(E, d) ==
    IF E = 0 /\ d = 0 THEN [E |-> 0, d |-> 0] ELSE RoundAt(E, d, Binade(E, d))

\* the sum of the first i products score * weight, added from left to
\* right: each product and each sum is rounded to a double
RECURSIVE float_sum(_, _, _)
float_sum(scores, ws, i) ==
    LET term == float_round(scores[i] * ws[i].E, scores[i] * ws[i].d)
    IN IF i = 1 THEN term
       ELSE LET acc == float_sum(scores, ws, i - 1)
            IN float_round(acc.E + term.E, acc.d + term.d)

\* int(round(x)): the nearest integer, the even one when x is a double that
\* lies exactly between two integers
int_round(x) ==
    LET q == x.E \div 20
        r == x.E % 20
    IN IF r < 10 THEN q
       ELSE IF r > 10 THEN q + 1
       ELSE IF x.d > 0 THEN q + 1
       ELSE IF x.d < 0 THEN q
       ELSE IF q % 2 = 0 THEN q ELSE q + 1

\* mutant: the upper threshold is exclusive
Verdict_exclusive(final_score) ==
    IF final_score > 80 THEN [verdict |-> "Likely Genuine", color |-> "green"]
    ELSE IF final_score >= 60 THEN [verdict |-> "Needs Verification", color |-> "yellow"]
    ELSE [verdict |-> "High Scam Risk", color |-> "red"]

Verdict(final_score) ==
    IF final_score >= 80 THEN [verdict |-> "Likely Genuine", color |-> "green"]
    ELSE IF final_score >= 60 THEN [verdict |-> "Needs Verification", color |-> "yellow"]
    ELSE [verdict |-> "High Scam Risk", color |-> "red"]

\* the source text of a pattern
PatternText(p) == IF Len(p) = 1 THEN p ELSE <<p[1], ".*", p[2]>>

\* mutant: the cap is 10
Cap12_ten(l) == SubSeq(l, 1, Min(Len(l), 10))

\* reasons[:12]
Cap12(l) == SubSeq(l, 1, Min(Len(l), 12))

aggregate_final_score(company_auth, lang_risk, salary_check, link_risk, interview_res, structure_res, doc_integrity, role_consistency, company_exist, scam_reports) ==
    LET reports_count == scam_reports.reports_count
        scores == <<company_auth.score, lang_risk.score, salary_check.score,
                    link_risk.score, interview_res.score, structure_res.score,
                    doc_integrity.score, role_consistency.score, company_exist.score,
                    trust_scam(reports_count)>>
        ws == <<FloatWeight(weights.company), FloatWeight(weights.language),
                FloatWeight(weights.salary), FloatWeight(weights.links),
                FloatWeight(weights.interview), FloatWeight(weights.structure),
                FloatWeight(weights.document), FloatWeight(weights.role),
                FloatWeight(weights.company_exist), FloatWeight(weights.scam)>>
        final_score == int_round(float_sum(scores, ws, 10))
        v == Verdict(final_score)
        reasons ==
            company_auth.flags
            \o company_exist.flags
            \o salary_check.flags
            \o interview_res.flags
            \o (IF lang_risk.risk_phrases # <<>>
                THEN <<Flag("High-risk language patterns detected: {list}",
                            JoinComma([i \in DOMAIN lang_risk.risk_phrases |->
                                          PatternText(lang_risk.risk_phrases[i])]),
                            <<>>)>>
                ELSE <<>>)
            \o (IF lang_risk.whatsapp_telegram_mentions # <<>>
                THEN <<Flag("Mentions of WhatsApp/Telegram/Signal in the offer text, which is unusual for formal offers.",
                            <<>>, <<>>)>>
                ELSE <<>>)
            \o (IF link_risk.suspicious_links # <<>>
                THEN <<Flag("Suspicious links found: {list}",
                            JoinComma(link_risk.suspicious_links), <<>>)>>
                ELSE <<>>)
            \o (IF reports_count > 0
                THEN <<Flag("This letter hash has been reported as scam {reports_count} time(s) by other users.",
                            <<>>, <<reports_count>>)>>
                ELSE <<>>)
            \o (IF structure_res.missing_sections # <<>>
                THEN <<Flag("Missing important sections: {list}",
                            JoinComma([i \in DOMAIN structure_res.missing_sections |->
                                          <<structure_res.missing_sections[i]>>]),
                            <<>>)>>
                ELSE <<>>)
    IN [score |-> final_score, verdict |-> v.verdict, verdict_color |-> v.color,
        reasons |-> Cap12(reasons)]

----------------------------------------------------------------------------
(* Main entry: verify_offer *)

\* str(raw_text)
StrText(v) == IF IsStr(v) THEN v.s ELSE <<"<repr>">>

\* env: the outcomes of the external lookups of one run: the two domain
\* probes and the two summarizer calls

\* the end of verify_offer: the results of the nine sub-checks, in the order
\* they are run, aggregated and returned; a sub-check that raised ends the run
verify_offer_result(company_auth, doc_integrity, lang_risk, salary_check, company_exist, role_consistency, link_risk, interview_res, structure_res) ==
    LET dummy_scam_stats == [reports_count |-> 0]
    IN IF ~company_auth.ok \/ ~salary_check.ok \/ ~company_exist.ok \/ ~link_risk.ok
          \/ ~interview_res.ok
       THEN Raise
       ELSE [ok |-> TRUE,
             company_authenticity |-> company_auth,
             document_integrity |-> doc_integrity,
             language_risk |-> lang_risk,
             salary_plausibility |-> salary_check,
             company_existence |-> company_exist,
             link_risk |-> link_risk,
             interview_plausibility |-> interview_res,
             offer_structure |-> structure_res,
             role_consistency |-> role_consistency,
             final_trust |->
                 aggregate_final_score(company_auth, lang_risk, salary_check, link_risk,
                                       interview_res, structure_res, doc_integrity,
                                       role_consistency, company_exist,
                                       dummy_scam_stats)]

verify_offer(payload, env) ==
    LET company_name == Get(payload, "company_name", Str(<<>>))
        hr_email == Get(payload, "hr_email", Str(<<>>))
        raw_text == StrText(Or(Get(payload, "raw_text", Str(<<>>)),
                               Get(payload, "offer_text", Str(<<>>))))
        salary_amount == Get(payload, "salary_amount", Null)
        salary_currency == Get(payload, "salary_currency", Str(<<"INR">>))
        salary_period == Get(payload, "salary_period", Str(<<"month">>))
        job_role == Get(payload, "job_role", Str(<<>>))
        region_hint == Get(payload, "region_hint", Str(<<"india">>))
        interview_info == Or(Get(payload, "interview", Null),
                             Dict([had_interview |-> Missing, channel |-> Missing,
                                   duration_minutes |-> Missing,
                                   asked_technical |-> Missing]))
        urls == Or(Get(payload, "links", Null), List(extract_urls(raw_text)))
    IN verify_offer_result(
           company_authenticity_check(company_name, hr_email, env.net_auth),
           document_integrity_and_explainability(env.llm_doc),
           language_risk_check(raw_text),
           salary_plausibility_check(salary_amount, salary_currency, salary_period,
                                     job_role, region_hint),
           company_existence_check(company_name, hr_email, env.net_exist),
           role_consistency_check(env.llm_role),
           link_risk_check(urls),
           interview_plausibility_check(interview_info),
           structure_validation_check(raw_text))

\* whether _call_llm reaches the API: the key is set and the client library
\* was imported
LlmCalled(llm) == IF llm.api_key /\ llm.client THEN <<"llm">> ELSE <<>>

\* the calls of the sub-checks that make any, one after the other, up to the
\* first sub-check that raises
calls_in_order(company_auth, llm_doc, salary_check, company_exist, llm_role) ==
    IF ~company_auth.ok THEN <<>>
    ELSE company_auth.calls \o LlmCalled(llm_doc)
         \o (IF ~salary_check.ok \/ ~company_exist.ok THEN <<>>
             ELSE company_exist.calls \o LlmCalled(llm_role))

\* the external calls of one run of verify_offer, in the order they are made:
\* the probe of company authenticity, the summarizer call of document
\* integrity, the probe of company existence, the summarizer call of role
\* consistency.  A sub-check that raises ends the run.
verify_offer_calls(payload, env) ==
    LET company_name == Get(payload, "company_name", Str(<<>>))
        hr_email == Get(payload, "hr_email", Str(<<>>))
    IN calls_in_order(
           company_authenticity_check(company_name, hr_email, env.net_auth),
           env.llm_doc,
           salary_plausibility_check(Get(payload, "salary_amount", Null),
                                     Get(payload, "salary_currency", Str(<<"INR">>)),
                                     Get(payload, "salary_period", Str(<<"month">>)),
                                     Get(payload, "job_role", Str(<<>>)),
                                     Get(payload, "region_hint", Str(<<"india">>))),
           company_existence_check(company_name, hr_email, env.net_exist),
           env.llm_role)

----------------------------------------------------------------------------
(* Flask handlers (main.py) *)

NoRequest == [endpoint |-> "none"]
NoResponse == [status |-> 0]

\* an exception outside the handler's try block: Flask answers 500
Unhandled == [status |-> 500, error |-> "Internal Server Error"]

\* the try block of verify(): the analysis with the hash and the report
\* count of the text, or the 500 of the except clause
verify_response(analysis, offer_hash, f) ==
    IF ~analysis.ok THEN [status |-> 500, error |-> "str(e)"]
    ELSE [status |-> 200, offer_hash |-> offer_hash,
          scam_reports |-> get_scam_report_stats(f, Str(offer_hash)),
          analysis |-> analysis]

\* POST /verify
verify(data, env, f) ==
    LET rt == Or(Get(data, "raw_text", Null), Str(<<>>))
    IN IF ~IsStr(rt) THEN Unhandled               \* no attribute 'strip'
       ELSE
       LET raw_text == strip(rt.s)
       IN IF raw_text = <<>>
          THEN [status |-> 400, error |-> "raw_text (offer letter text) is required"]
          ELSE
          verify_response(verify_offer(data, env), compute_offer_hash(raw_text), f)

\* mutant: the pipeline runs before the text is validated
verify_calls_eager(data, env) ==
    LET rt == Or(Get(data, "raw_text", Null), Str(<<>>))
    IN IF ~IsStr(rt) THEN <<>>
       ELSE verify_offer_calls(data, env)

\* the external calls made while POST /verify is handled
verify_calls(data, env) ==
    LET rt == Or(Get(data, "raw_text", Null), Str(<<>>))
    IN IF ~IsStr(rt) THEN <<>>
       ELSE IF strip(rt.s) = <<>> THEN <<>>
       ELSE verify_offer_calls(data, env)

\* the body after /setup has copied offer_text to raw_text; verify() reads
\* the same parsed body, which get_json keeps for the request
setup_payload(data) ==
    IF data.raw_text.t = "missing" /\ data.offer_text.t # "missing"
    THEN [data EXCEPT !.raw_text = data.offer_text]
    ELSE data

\* mutant: offer_text is not copied
setup_legacy_nocopy(data, env, f) == verify(data, env, f)

\* POST /setup
setup_legacy(data, env, f) == verify(setup_payload(data), env, f)

\* the external calls made while POST /setup is handled
setup_calls(data, env) == verify_calls(setup_payload(data), env)

\* POST /report-scam up to the call of record_scam_report: the response of an
\* early return, or the offer hash to record
report_scam_args(data) ==
    LET rt == Or(Get(data, "raw_text", Null), Str(<<>>))
        given == Get(data, "offer_hash", Null)
    IN IF ~IsStr(rt) THEN [returns |-> TRUE, response |-> Unhandled]
       ELSE IF strip(rt.s) = <<>> /\ ~Truthy(given)
       THEN [returns |-> TRUE,
             response |-> [status |-> 400, error |-> "raw_text or offer_hash is required"]]
       ELSE [returns |-> FALSE,
             offer_hash |-> IF ~Truthy(given) THEN Str(compute_offer_hash(strip(rt.s)))
                            ELSE given]

\* GET /status/<offer_hash>
status(offer_hash, f) ==
    LET stats == get_scam_report_stats(f, Str(offer_hash))
    IN [status |-> 200, reports_count |-> stats.reports_count, state |-> stats.status]

----------------------------------------------------------------------------
(* Requests *)

P0 ==
    [company_name |-> Missing, hr_email |-> Missing, raw_text |-> Missing,
     offer_text |-> Missing, salary_amount |-> Missing, salary_currency |-> Missing,
     salary_period |-> Missing, job_role |-> Missing, region_hint |-> Missing,
     links |-> Missing, interview |-> Missing, offer_hash |-> Missing]

Interview(had, channel, minutes, technical) ==
    Dict([had_interview |-> had, channel |-> channel, duration_minutes |-> minutes,
          asked_technical |-> technical])

ScamText == <<"Processing Fee", " ", "whatsapp only for communication">>
ScamTextLoud ==
    <<" ", "PROCESSING FEE", " ", "\n", "WhatsApp only for communication", "\n">>
GenuineText ==
    <<"offer id", "\n", "registered office", "\n", "date of joining", "\n",
      "reporting manager", "\n", "designation", "\n", "ctc", "\n",
      "terms and conditions", "\n", "hr contact", "\n", "gst">>
PlainText == <<"dear candidate">>
LinkText ==
    <<"dear candidate", " ", "pay", " ", "before joining", "\n",
      "http://google-jobs1.xyz/apply", " ", "HTTPS://Bit.ly/Offer", " ", "ctc">>
JoiningText == <<"whatsapp only for communication", " ", "date of joining">>

OfficialEmail == <<"Careers", "@", "Google.com">>
FreeEmail == <<"hr", "@", "gmail.com">>
OtherEmail == <<"recruiter", "@", "google.com">>
NoAtEmail == <<"hr.acme.example">>

Nets ==
    {[dns |-> FALSE, http |-> FALSE, https |-> FALSE],
     [dns |-> TRUE, http |-> FALSE, https |-> FALSE],
     [dns |-> TRUE, http |-> TRUE, https |-> FALSE],
     [dns |-> TRUE, http |-> FALSE, https |-> TRUE],
     [dns |-> TRUE, http |-> TRUE, https |-> TRUE]}

Unavailable == [api_key |-> FALSE, client |-> TRUE, raises |-> FALSE, content |-> Null]
Answer(content) ==
    [api_key |-> TRUE, client |-> TRUE, raises |-> FALSE, content |-> Str(content)]

Llms ==
    {Unavailable, Answer(<<"Looks professional.", "\n", "SCORE: 100">>),
     Answer(<<"Poor letter.", " ", "SCORE: 0", "\n">>)}

Envs == [net_auth : Nets, net_exist : Nets, llm_doc : Llms, llm_role : Llms]

\* the scam scenario: the two phrases, no interview, a free-mail HR address,
\* no structure keyword
ScamRequests ==
    {[data |-> [P0 EXCEPT !.raw_text = Str(t), !.hr_email = Str(FreeEmail),
                          !.company_name = c, !.salary_amount = a, !.links = l,
                          !.interview = i],
      env |-> e] :
        t \in {ScamText}, c \in {Missing, Str(<<"Google">>)},
        a \in {Missing, Num(200000)},
        l \in {Missing, List(<<Str(<<"http://apply-now.xyz/form">>)>>)},
        i \in {Missing, Interview(Bool(FALSE), Missing, Num(0), Bool(FALSE))},
        e \in Envs}

\* the genuine scenario
GenuineRequests ==
    {[data |-> [P0 EXCEPT !.raw_text = Str(GenuineText), !.hr_email = Str(OfficialEmail),
                          !.company_name = Str(<<" ", "Google">>),
                          !.salary_amount = a, !.links = l, !.interview = i],
      env |-> e] :
        a \in {Num(50000), Str(<<"₹", "50", ",", "000", ".", "5">>)},
        l \in {Missing,
               List(<<Str(<<"https://bit.ly/offer">>), Str(<<"https://t.co.jobs.top/a">>),
                      Num(7), Str(<<"http://google-jobs1.xyz/apply">>)>>)},
        i \in {Interview(Bool(TRUE), Str(<<"Zoom">>), Num(30), Bool(TRUE)),
               Interview(Bool(TRUE), Str(<<"Video Call">>), Num(30), Bool(TRUE))},
        e \in {x \in Envs : x.net_auth.https /\ x.net_exist.https}}

\* other payloads, with one outcome of the lookups each
MixRequests ==
    {[data |-> [P0 EXCEPT !.raw_text = Str(t), !.hr_email = m, !.company_name = c,
                          !.interview = i, !.salary_amount = a, !.job_role = r],
      env |-> [net_auth |-> n, net_exist |-> n, llm_doc |-> Unavailable,
               llm_role |-> Answer(<<"SCORE: 250">>)]] :
        t \in {ScamTextLoud, PlainText, LinkText, JoiningText},
        m \in {Str(OfficialEmail), Str(OtherEmail), Str(NoAtEmail), Null},
        c \in {Str(<<"Google">>)},
        i \in {Interview(Bool(TRUE), Str(<<"whatsapp">>), Num(3), Bool(FALSE)),
               Interview(Bool(TRUE), Str(<<"phone">>), Str(<<"5">>), Missing)},
        a \in {Num(5000), Str(<<"117000">>)},
        r \in {Missing, Str(<<"intern">>)},
        n \in Nets}

\* payloads with one optional field of another shape, the rest as in the
\* genuine scenario
ShapeBase ==
    [P0 EXCEPT !.raw_text = Str(GenuineText), !.hr_email = Str(OfficialEmail),
               !.company_name = Str(<<"Google">>), !.salary_amount = Num(50000),
               !.interview = Interview(Bool(TRUE), Str(<<"Zoom">>), Num(30), Bool(TRUE))]

ShapeEnv ==
    [net_auth |-> [dns |-> TRUE, http |-> TRUE, https |-> TRUE],
     net_exist |-> [dns |-> TRUE, http |-> TRUE, https |-> TRUE],
     llm_doc |-> Unavailable, llm_role |-> Unavailable]

ShapePayloads ==
    {[ShapeBase EXCEPT !.interview = v] :
        v \in {Null, List(<<>>), Str(<<"yes">>), Num(1), Bool(TRUE),
               Interview(Bool(TRUE), Num(7), Num(30), Bool(TRUE)),
               Interview(Str(<<"yes">>), Null, List(<<>>), Null)}}
    \cup {[ShapeBase EXCEPT !.hr_email = v] : v \in {Null, Num(5), Bool(FALSE)}}
    \cup {[ShapeBase EXCEPT !.salary_period = v] :
             v \in {Null, Num(12), Str(<<"Month">>), Str(<<"year">>)}}
    \cup {[ShapeBase EXCEPT !.company_name = v] : v \in {Null, Num(5)}}
    \cup {[ShapeBase EXCEPT !.links = v] : v \in {Null, Num(1), Str(<<"zoom">>)}}
    \cup {[ShapeBase EXCEPT !.salary_amount = v] : v \in {Null, Bool(TRUE), Str(<<"lpa">>)}}
    \cup {[ShapeBase EXCEPT !.raw_text = v] :
             v \in {Missing, Null, Num(5), Str(<<>>), Str(<<" ", "\n">>)}}
    \cup {[ShapeBase EXCEPT !.raw_text = Missing, !.offer_text = Str(GenuineText)]}

\* every way the summarizer call ends: no key, no client library, the request
\* raises, an answer without content, answers without and with a SCORE match
LlmOutcomes ==
    {Unavailable,
     [api_key |-> TRUE, client |-> FALSE, raises |-> FALSE, content |-> Null],
     [api_key |-> TRUE, client |-> TRUE, raises |-> TRUE, content |-> Null],
     [api_key |-> TRUE, client |-> TRUE, raises |-> FALSE, content |-> Null],
     Answer(<<"Looks professional.">>),
     Answer(<<"score: 90">>),
     Answer(<<"SCORE: -5">>),
     Answer(<<" ", "SCORE:85", "\n">>),
     Answer(<<"SCORE: 25", " ", "SCORE: 100">>),
     Answer(<<"SCORE: 250">>)}

\* the genuine payload under every pair of summarizer outcomes
\* the outcomes of the lookups, with those where the name does not resolve
\* although a server would answer
ProbeNets ==
    Nets \cup {[dns |-> FALSE, http |-> TRUE, https |-> TRUE],
               [dns |-> FALSE, http |-> TRUE, https |-> FALSE]}


\* the genuine payload with every kind of HR address, a known and an unknown
\* company, and every outcome of the probe of company authenticity
AuthRequests ==
    {[data |-> [ShapeBase EXCEPT !.hr_email = m, !.company_name = c],
      env |-> [ShapeEnv EXCEPT !.net_auth = n,
                               !.llm_doc = Answer(<<"SCORE:85">>)]] :
        m \in {Str(OfficialEmail), Str(FreeEmail), Str(OtherEmail), Str(NoAtEmail),
               Str(<<"hr", "@">>), Str(<<" ", "hr", "@", "yahoo.com", "\n">>),
               Str(<<"hr", "@", "mail", "@", "gmail.com">>),
               Str(<<>>), Missing},
        c \in {Str(<<"Google">>), Str(<<"Acme">>), Missing},
        n \in ProbeNets}

\* the genuine payload with every kind of interview: held or not, each kind
\* of channel, durations on both sides of 5 and 15 minutes, technical
\* questions asked, not asked, or not told
InterviewRequests ==
    {[data |-> [ShapeBase EXCEPT !.interview = Interview(h, c, m, t)], env |-> ShapeEnv] :
        h \in {Bool(TRUE), Bool(FALSE)},
        c \in {Str(<<"WhatsApp Call">>), Str(<<"telegram">>), Str(<<"phone">>),
               Str(<<"Zoom">>), Missing},
        m \in {Num(4), Num(5), Num(14), Num(15), Str(<<"5">>), Missing},
        t \in {Bool(FALSE), Bool(TRUE), Num(0), Missing}}

\* role, region and period of every benchmark, and of a key without one
SalaryKeys ==
    {[job_role |-> Missing, region_hint |-> Missing, salary_period |-> Missing],
     [job_role |-> Str(<<"data analyst">>), region_hint |-> Missing,
      salary_period |-> Missing],
     [job_role |-> Str(<<"intern">>), region_hint |-> Missing, salary_period |-> Missing],
     [job_role |-> Missing, region_hint |-> Str(<<"us">>),
      salary_period |-> Str(<<"year">>)],
     [job_role |-> Str(<<"intern">>), region_hint |-> Str(<<"us">>),
      salary_period |-> Str(<<"month">>)],
     [job_role |-> Missing, region_hint |-> Missing, salary_period |-> Str(<<"year">>)]}

\* the amounts at and next to 30% of the lower end, 130% and 200% of the
\* upper end of a benchmark
BoundaryAmounts(bench) ==
    IF bench = <<>> THEN {Num(50000)}
    ELSE {Num(x) : x \in {(3 * bench[1]) \div 10 - 1, (3 * bench[1]) \div 10,
                          (13 * bench[2]) \div 10, (13 * bench[2]) \div 10 + 1,
                          2 * bench[2], 2 * bench[2] + 1}}

\* the genuine payload with the amounts at the boundaries of every benchmark,
\* and amounts a hundredth off the boundaries of the default one
SalaryRequests ==
    {[data |-> [ShapeBase EXCEPT !.job_role = k.job_role, !.region_hint = k.region_hint,
                                 !.salary_period = k.salary_period, !.salary_amount = a],
      env |-> ShapeEnv] :
        k \in SalaryKeys,
        a \in UNION {BoundaryAmounts(Benchmark(q.salary_period, q.job_role,
                                               Get(q, "region_hint", Str(<<"india">>)))) :
                        q \in SalaryKeys}
              \cup {Str(<<"5999", ".", "99">>), Str(<<"117000", ".", "01">>),
                    Str(<<"₹", "180000", ".", "01">>)}}

VerifyRequests ==
    ScamRequests \cup GenuineRequests \cup MixRequests \cup {[data |-> d, env |-> ShapeEnv] : d \in ShapePayloads}
    \cup {[data |-> ShapeBase, env |-> [ShapeEnv EXCEPT !.llm_doc = d, !.llm_role = r]] :
             d \in LlmOutcomes, r \in LlmOutcomes}
    \cup AuthRequests \cup InterviewRequests \cup SalaryRequests

\* requests of the old frontend: the text under offer_text, under raw_text,
\* under both, under neither, and of another shape
SetupRequests ==
    {[data |-> [ShapeBase EXCEPT !.raw_text = t, !.offer_text = o], env |-> e] :
        t \in {Missing, Null, Str(ScamText)},
        o \in {Missing, Null, Num(5), Str(<<" ", "\n">>), Str(GenuineText),
               Str(ScamTextLoud)},
        e \in {ShapeEnv,
               [ShapeEnv EXCEPT !.llm_doc = Answer(<<"SCORE:85">>),
                                !.net_exist = [dns |-> FALSE, http |-> FALSE,
                                               https |-> FALSE]]}}

\* bodies of POST /report-scam: a text, the same text in another case and
\* spacing, a hash given as a string, as a number and as a list, no field at
\* all, and a text that is a number
ConcReportPayloads ==
    {[P0 EXCEPT !.raw_text = Str(ScamText)],
     [P0 EXCEPT !.raw_text = Str(ScamTextLoud)],
     [P0 EXCEPT !.offer_hash = Str(<<"5">>)],
     [P0 EXCEPT !.offer_hash = Num(5)],
     [P0 EXCEPT !.offer_hash = List(<<Num(5)>>)],
     P0,
     [P0 EXCEPT !.raw_text = Num(5)]}

StatusHashes == {compute_offer_hash(ScamText), <<"5">>, compute_offer_hash(PlainText)}

\* the /verify requests that run next to reports
ConcRequests ==
    {[data |-> [P0 EXCEPT !.raw_text = Str(t)], env |-> ShapeEnv] :
        t \in {ScamText, ScamTextLoud, PlainText}}

\* the keys the reports of the model store
StoreKeys == <<Text(<<"5">>), KeyChars(compute_offer_hash(ScamText))>>

\* What exists() and read_text return to the handlers of /verify, /setup and
\* /status: no file, the file another request has just opened for writing,
\* a file put there by hand with the text "[]", the text that two
\* overlapping writes leave in the file and that a read returns which the
\* write of a report splits (the file a report of "5" left, and from its
\* end on the file the report of a text has written since), the file a
\* report of the number 5 leaves, and the objects that reports of the two
\* keys leave.
StoreFiles ==
    {NoFile, EmptyFile,
     [exists |-> TRUE, text |-> Text(<<"[", "]">>)],
     written(json_dumps([str |-> [i \in 1..2 |-> [k |-> StoreKeys[i], v |-> 1]],
                         other |-> EmptyDict]),
             json_dumps([str |-> <<[k |-> StoreKeys[1], v |-> 1]>>, other |-> EmptyDict])),
     json_dumps([str |-> <<[k |-> StoreKeys[1], v |-> MaxReports]>>,
                 other |-> <<[k |-> StoreKeys[1], v |-> 1]>>])}
    \cup {json_dumps([str |-> [i \in DOMAIN K |-> [k |-> K[i], v |-> n[i]]],
                      other |-> EmptyDict]) :
             K \in {SubSeq(StoreKeys, 1, 1), SubSeq(StoreKeys, 2, 2), StoreKeys},
             n \in [1..2 -> {1, MaxReports}]}

----------------------------------------------------------------------------
(* The handlers that read the store: /verify, /setup and /status, on every *)
(* text their read of the file can return.  No request of this             *)
(* specification writes the file, so the read is one step.                  *)

Init ==
    /\ file \in StoreFiles
    /\ request = NoRequest
    /\ response = NoResponse
    /\ workers = [w \in 1..MaxWorkers |-> [pc |-> "idle"]]
    /\ acked = <<>>
    /\ agg = [input |-> <<>>, done |-> FALSE]
    /\ calls = <<>>

\* mutant: an answered lookup is counted in the store
Verify_recording ==
    /\ response = NoResponse
    /\ \E r \in VerifyRequests :
          LET answer == verify(r.data, r.env, file)
          IN /\ request' = [endpoint |-> "/verify", data |-> r.data, env |-> r.env]
             /\ response' = answer
             /\ calls' = verify_calls(r.data, r.env)
             /\ file' = IF answer.status = 200
                        THEN json_dumps(incremented(_load_scam_reports(file),
                                                    Str(answer.offer_hash)))
                        ELSE file
    /\ UNCHANGED <<workers, acked, agg>>

Verify ==
    /\ response = NoResponse
    /\ \E r \in VerifyRequests :
          /\ request' = [endpoint |-> "/verify", data |-> r.data, env |-> r.env]
          /\ response' = verify(r.data, r.env, file)
          /\ calls' = verify_calls(r.data, r.env)
    /\ UNCHANGED <<file, workers, acked, agg>>

Setup ==
    /\ response = NoResponse
    /\ \E r \in SetupRequests :
          /\ request' = [endpoint |-> "/setup", data |-> r.data, env |-> r.env]
          /\ response' = setup_legacy(r.data, r.env, file)
          /\ calls' = setup_calls(r.data, r.env)
    /\ UNCHANGED <<file, workers, acked, agg>>

Status ==
    /\ response = NoResponse
    /\ \E h \in StatusHashes :
          /\ request' = [endpoint |-> "/status", offer_hash |-> h]
          /\ response' = status(h, file)
    /\ calls' = <<>>
    /\ UNCHANGED <<file, workers, acked, agg>>

\* the response is sent
Return ==
    /\ response # NoResponse
    /\ request' = NoRequest
    /\ response' = NoResponse
    /\ calls' = <<>>
    /\ UNCHANGED <<file, workers, acked, agg>>

Next == Verify \/ Setup \/ Status \/ Return

Spec == Init /\ [][Next]_vars

----------------------------------------------------------------------------
(* The server with its requests running side by side.  The development      *)
(* server is threaded and gunicorn runs several workers; the handlers take  *)
(* no lock, so the system calls of one request interleave with those of     *)
(* the others: the exists() and fstat() and every read() of a read of the   *)
(* store, the open() and the write() of a save.                             *)

InitConc ==
    /\ file = NoFile
    /\ request = NoRequest
    /\ response = NoResponse
    /\ workers = [w \in 1..MaxWorkers |-> [pc |-> "idle"]]
    /\ acked = <<>>
    /\ agg = [input |-> <<>>, done |-> FALSE]
    /\ calls = <<>>

\* POST /report-scam answered before record_scam_report is called
Rejected ==
    /\ response = NoResponse
    /\ \E data \in ConcReportPayloads :
          /\ report_scam_args(data).returns
          /\ request' = [endpoint |-> "/report-scam", data |-> data]
          /\ response' = report_scam_args(data).response
    /\ calls' = <<>>
    /\ UNCHANGED <<file, workers, acked, agg>>

\* A request at work.  pc: the step it is at; h: the offer hash of a report;
\* saved: record_scam_report has saved; rd: the reader of the read under
\* way; got: what the last read of the store returned; text: the text that
\* _save_scam_reports is to write.
Worker(req, h) ==
    [pc |-> "probe", request |-> req, h |-> h, saved |-> FALSE,
     rd |-> [limit |-> 0, buf |-> <<>>], got |-> NoFile, text |-> EmptyFile]

\* A request is taken by the first of the workers at rest.  The answer of a
\* request is sent before another step is taken: sending it touches nothing
\* the requests share.
\* POST /report-scam up to the call of record_scam_report
Start(w) ==
    /\ response = NoResponse
    /\ workers[w].pc = "idle"
    /\ \A v \in 1..(w - 1) : workers[v].pc # "idle"
    /\ Len(acked)
          + Cardinality({v \in DOMAIN workers :
                            /\ workers[v].pc # "idle"
                            /\ workers[v].request.endpoint = "/report-scam"})
       < MaxReports
    /\ \E data \in ConcReportPayloads :
          /\ ~report_scam_args(data).returns
          /\ workers' = [workers EXCEPT ![w] =
                            Worker([endpoint |-> "/report-scam", data |-> data],
                                   report_scam_args(data).offer_hash)]
    /\ UNCHANGED <<file, request, response, acked, agg, calls>>

\* POST /verify up to the call of get_scam_report_stats; the requests of
\* ConcRequests all reach it
Lookup(w) ==
    /\ response = NoResponse
    /\ workers[w].pc = "idle"
    /\ \A v \in 1..(w - 1) : workers[v].pc # "idle"
    /\ \E r \in ConcRequests :
          workers' = [workers EXCEPT ![w] =
                         Worker([endpoint |-> "/verify", data |-> r.data, env |-> r.env],
                                Null)]
    /\ UNCHANGED <<file, request, response, acked, agg, calls>>

\* GET /status/<offer_hash> up to the call of get_scam_report_stats
Poll(w) ==
    /\ response = NoResponse
    /\ workers[w].pc = "idle"
    /\ \A v \in 1..(w - 1) : workers[v].pc # "idle"
    /\ \E h \in StatusHashes :
          workers' = [workers EXCEPT ![w] =
                         Worker([endpoint |-> "/status", offer_hash |-> h], Null)]
    /\ UNCHANGED <<file, request, response, acked, agg, calls>>

\* where a request goes on when its read of the store has returned: the load
\* of record_scam_report is followed by the increment, the read of
\* get_scam_report_stats by the answer
AfterRead(wk) ==
    IF wk.request.endpoint = "/report-scam" /\ ~wk.saved THEN "increment" ELSE "answer"

\* _load_scam_reports: SCAM_REPORTS_FILE.exists(), and, the file being
\* there, the open() and the fstat() of read_text (l.141).  No request
\* removes the file, so the three see the same.  The buffer of the read is
\* made for the size fstat gave and one character more, or for 8192
\* characters when the file is empty.
Probe(w) ==
    /\ workers[w].pc = "probe"
    /\ response = NoResponse
    /\ workers' =
          IF file.exists
          THEN [workers EXCEPT
                   ![w].pc = "read",
                   ![w].rd = [limit |-> IF Len(file.text) > 0 THEN Len(file.text) + 1
                                        ELSE 8192,
                              buf |-> <<>>]]
          ELSE [workers EXCEPT ![w].pc = AfterRead(workers[w]), ![w].got = NoFile]
    /\ UNCHANGED <<file, request, response, acked, agg, calls>>

\* One read() of read_text.  A full buffer of less than 7936 characters is
\* made 8192 characters larger.
\* The read() asks for what the buffer still takes and returns what the file
\* holds from the reader's offset on; the read() that returns nothing ends
\* read_text, which returns the characters read.
Read(w) ==
    /\ workers[w].pc = "read"
    /\ response = NoResponse
    /\ LET rd == workers[w].rd
           limit == IF Len(rd.buf) >= rd.limit THEN Len(rd.buf) + 8192 ELSE rd.limit
           upto == IF Len(file.text) <= limit THEN Len(file.text) ELSE limit
       IN workers' =
             IF Len(rd.buf) < upto
             THEN [workers EXCEPT
                      ![w].rd = [limit |-> limit,
                                 buf |-> rd.buf \o SubSeq(file.text, Len(rd.buf) + 1, upto)]]
             ELSE [workers EXCEPT ![w].pc = AfterRead(workers[w]),
                                  ![w].got = [exists |-> TRUE, text |-> rd.buf],
                                  ![w].rd = [limit |-> 0, buf |-> <<>>]]
    /\ UNCHANGED <<file, request, response, acked, agg, calls>>

\* data.get(offer_hash, 0) raises TypeError for a list: the handler answers 500
Unhashable(w) ==
    /\ workers[w].pc = "increment"
    /\ response = NoResponse
    /\ workers[w].h.t \in {"list", "dict"}
    /\ request' = workers[w].request
    /\ response' = [status |-> 500, error |-> "str(e)"]
    /\ calls' = <<>>
    /\ workers' = [workers EXCEPT ![w] = [pc |-> "idle"]]
    /\ UNCHANGED <<file, acked, agg>>

\* data[offer_hash] = data.get(offer_hash, 0) + 1 on the dict that the load
\* returned, and the text json.dumps(data, indent=2) that _save_scam_reports
\* is to write
Increment(w) ==
    /\ workers[w].pc = "increment"
    /\ response = NoResponse
    /\ workers[w].h.t \notin {"list", "dict"}
    /\ workers' = [workers EXCEPT
                      ![w].pc = "open",
                      ![w].text = json_dumps(incremented(
                                      _load_scam_reports(workers[w].got), workers[w].h))]
    /\ UNCHANGED <<file, request, response, acked, agg, calls>>

\* write_text opens the file for writing: the file is created or emptied
Open(w) ==
    /\ workers[w].pc = "open"
    /\ response = NoResponse
    /\ file' = EmptyFile
    /\ workers' = [workers EXCEPT ![w].pc = "write"]
    /\ UNCHANGED <<request, response, acked, agg, calls>>

\* write_text writes the text and closes the file; record_scam_report goes
\* on to get_scam_report_stats
Write(w) ==
    /\ workers[w].pc = "write"
    /\ response = NoResponse
    /\ file' = written(file, workers[w].text)
    /\ workers' = [workers EXCEPT ![w].pc = "probe", ![w].saved = TRUE]
    /\ UNCHANGED <<request, response, acked, agg, calls>>

\* the handler answers with the stats of what its read returned
Finish(w) ==
    /\ workers[w].pc = "answer"
    /\ response = NoResponse
    /\ LET req == workers[w].request
           got == workers[w].got
       IN /\ request' = req
          /\ response' =
                CASE req.endpoint = "/report-scam" ->
                        [status |-> 200, offer_hash |-> workers[w].h,
                         message |-> "Scam report recorded.",
                         scam_reports |-> get_scam_report_stats(got, workers[w].h)]
                  [] req.endpoint = "/verify" -> verify(req.data, req.env, got)
                  [] req.endpoint = "/status" -> status(req.offer_hash, got)
          /\ calls' = IF req.endpoint = "/verify" THEN verify_calls(req.data, req.env)
                      ELSE <<>>
          /\ acked' = IF req.endpoint = "/report-scam"
                      THEN Append(acked, StoredKey(workers[w].h))
                      ELSE acked
    /\ workers' = [workers EXCEPT ![w] = [pc |-> "idle"]]
    /\ UNCHANGED <<file, agg>>

NextConc ==
    \/ \E w \in 1..MaxWorkers :
          Start(w) \/ Lookup(w) \/ Poll(w) \/ Probe(w) \/ Read(w) \/ Unhashable(w)
          \/ Increment(w) \/ Open(w) \/ Write(w) \/ Finish(w)
    \/ Rejected \/ Return

SpecConc == InitConc /\ [][NextConc]_vars

----------------------------------------------------------------------------
(* aggregate_final_score on its own *)

\* sub-scores over their range, no flags
ScoreInputs ==
    {[company_auth |-> [score |-> c, flags |-> <<>>],
      lang_risk |-> [score |-> l, risk_phrases |-> <<>>,
                     whatsapp_telegram_mentions |-> <<>>],
      salary_check |-> [score |-> s, flags |-> <<>>],
      link_risk |-> [score |-> k, suspicious_links |-> <<>>],
      interview_res |-> [score |-> i, flags |-> <<>>],
      structure_res |-> [score |-> st, missing_sections |-> <<>>],
      doc_integrity |-> [score |-> d], role_consistency |-> [score |-> r],
      company_exist |-> [score |-> e, flags |-> <<>>],
      scam_reports |-> [reports_count |-> n]] :
        c \in {0, 45, 100}, l \in {10, 75}, s \in {60, 100}, k \in {0, 85},
        i \in {0, 65, 100}, st \in {0, 33, 85}, d \in {0, 57, 100},
        r \in {0, 60, 99}, e \in {70, 100}, n \in 0..MaxCount}

\* flag lists of every length the checks produce, one flag text shared by
\* two checks
FlagInputs ==
    {[company_auth |-> [score |-> 65, flags |-> c],
      lang_risk |-> [score |-> 80, risk_phrases |-> risk,
                     whatsapp_telegram_mentions |-> wt],
      salary_check |-> [score |-> 85, flags |-> s],
      link_risk |-> [score |-> 65, suspicious_links |-> k],
      interview_res |-> [score |-> 25, flags |-> i],
      structure_res |-> [score |-> 0, missing_sections |-> st],
      doc_integrity |-> [score |-> 60], role_consistency |-> [score |-> 60],
      company_exist |-> [score |-> 70, flags |-> e],
      scam_reports |-> [reports_count |-> n]] :
        c \in {<<>>, <<Flag("shared", <<>>, <<>>)>>,
               <<Flag("free", <<>>, <<>>), Flag("shared", <<>>, <<>>),
                 Flag("unreachable", <<>>, <<>>)>>},
        risk \in {<<>>, <<<<"processing fee">>, <<"pay", "before joining">>>>},
        wt \in {<<>>, <<<<"whatsapp">>>>},
        s \in {<<>>, <<Flag("shared", <<>>, <<>>)>>},
        k \in {<<>>, <<<<"http://google-jobs1.xyz/apply">>, <<"http://google-jobs1.xyz/apply">>>>},
        i \in {<<>>, <<Flag("no interview", <<>>, <<>>), Flag("under 5 minutes", <<>>, <<>>),
                       Flag("no technical", <<>>, <<>>)>>},
        st \in {<<>>, <<"offer_id", "tnc">>},
        e \in {<<>>, <<Flag("no response", <<>>, <<>>)>>},
        n \in {0, 2}}

InitAgg ==
    /\ file = NoFile
    /\ request = NoRequest
    /\ response = NoResponse
    /\ workers = [w \in 1..MaxWorkers |-> [pc |-> "idle"]]
    /\ acked = <<>>
    /\ agg \in {[input |-> x, done |-> FALSE] : x \in ScoreInputs \cup FlagInputs}
    /\ calls = <<>>

Aggregate ==
    /\ ~agg.done
    /\ LET x == agg.input
       IN agg' = [input |-> x, done |-> TRUE,
                  out |-> aggregate_final_score(
                              x.company_auth, x.lang_risk, x.salary_check, x.link_risk,
                              x.interview_res, x.structure_res, x.doc_integrity,
                              x.role_consistency, x.company_exist, x.scam_reports)]
    /\ UNCHANGED <<file, request, response, workers, acked, calls>>

NextAgg == Aggregate

SpecAgg == InitAgg /\ [][NextAgg]_vars

----------------------------------------------------------------------------
(* Properties *)

\* a /verify request was answered with the analysis
VerifyOk == request.endpoint = "/verify" /\ response.status = 200

InRange(x) == x \in 0..100

\* the count the store holds for a key
StoredCount(f, h) == Count(_load_scam_reports(f), KeyChars(h))

\* C1: every sub-score of an answered /verify, the scam-report sub-score of
\* the stored count, and the final score are integers in [0, 100].
C1_ScoresInRange ==
    VerifyOk =>
        LET a == response.analysis
        IN /\ InRange(a.company_authenticity.score)
           /\ InRange(a.language_risk.score)
           /\ InRange(a.salary_plausibility.score)
           /\ InRange(a.link_risk.score)
           /\ InRange(a.interview_plausibility.score)
           /\ InRange(a.offer_structure.score)
           /\ InRange(a.document_integrity.score)
           /\ InRange(a.role_consistency.score)
           /\ InRange(a.company_existence.score)
           /\ InRange(trust_scam(response.scam_reports.reports_count))
           /\ InRange(a.final_trust.score)

\* the summarizer answered beyond the range, the links and the interview went
\* below it, and the letter has been reported
C1_Witness ==
    /\ VerifyOk
    /\ request.env.llm_role.content = Str(<<"SCORE: 250">>)
    /\ response.analysis.role_consistency.score = 100
    /\ response.analysis.interview_plausibility.score < 50
    /\ response.scam_reports.reports_count = MaxReports

\* the number of answered reports stored under a key
Answered(k) == Cardinality({i \in DOMAIN acked : acked[i] = k})

\* the keys of a dict
Keys(data) == {data[i].k : i \in DOMAIN data}

\* the keys a store or a dict of the model can hold
KeysOf(f, g, data) ==
    Keys(_load_scam_reports(f)) \cup Keys(_load_scam_reports(g)) \cup Keys(data)
    \cup {StoreKeys[i] : i \in DOMAIN StoreKeys}

\* C2: the store is append-only: no step lowers a stored count, and a call of
\* record_scam_report, once it has saved, has raised the count of its offer
\* hash by exactly one from what it loaded and left every other count as it
\* was.
C2_AppendOnly ==
    [][/\ \A k \in KeysOf(file, file', EmptyDict) :
             Count(_load_scam_reports(file'), k) >= Count(_load_scam_reports(file), k)
       /\ \A w \in DOMAIN workers :
             (workers[w].pc = "write" /\ workers'[w].pc = "probe") =>
                \A k \in KeysOf(file, file', _load_scam_reports(workers[w].got)) :
                   Count(_load_scam_reports(file'), k)
                      = Count(_load_scam_reports(workers[w].got), k)
                        + (IF k = StoredKey(workers[w].h) THEN 1 ELSE 0)
      ]_vars

\* C3: concurrent reports of one offer hash are serialized: once every
\* request has been answered, the stored count of the hash is the number of
\* answered reports of it.
C3_NoLostUpdate ==
    (\A w \in DOMAIN workers : workers[w].pc = "idle") =>
        StoredCount(file, compute_offer_hash(ScamText))
           = Answered(KeyChars(compute_offer_hash(ScamText)))

\* the weighted sum, in hundredths, of an analysis with n scam reports
Sum100(a, n) ==
    20 * a.company_authenticity.score + 15 * a.language_risk.score
    + 10 * a.salary_plausibility.score + 5 * a.link_risk.score
    + 10 * a.interview_plausibility.score + 10 * a.offer_structure.score
    + 10 * a.document_integrity.score + 10 * a.role_consistency.score
    + 5 * a.company_existence.score + 5 * (IF 100 - 15 * n > 0 THEN 100 - 15 * n ELSE 0)

ScamReportNote(n) ==
    Flag("This letter hash has been reported as scam {reports_count} time(s) by other users.",
         <<>>, <<n>>)

InSeq(x, l) == \E i \in DOMAIN l : l[i] = x

\* C4: the report count that enters the aggregation of /verify is the count
\* the store holds for the offer's hash: the final score is the rounded
\* weighted sum with that count, and for a count above zero the reasons carry
\* the scam-report note.
C4_StoredCountAggregated ==
    VerifyOk =>
        LET a == response.analysis
            n == StoredCount(file, response.offer_hash)
        IN /\ 100 * a.final_trust.score - Sum100(a, n) \in -50..50
           /\ (n > 0 /\ Len(a.final_trust.reasons) < 12) =>
                  InSeq(ScamReportNote(n), a.final_trust.reasons)

\* the claimed sub-score of n scam reports
ClaimedScam(n) == IF 100 - 15 * n > 0 THEN 100 - 15 * n ELSE 0

\* the claimed weighted sum of the aggregation's input, in hundredths
ClaimedSum(x) ==
    20 * x.company_auth.score + 15 * x.lang_risk.score + 10 * x.salary_check.score
    + 5 * x.link_risk.score + 10 * x.interview_res.score + 10 * x.structure_res.score
    + 10 * x.doc_integrity.score + 10 * x.role_consistency.score
    + 5 * x.company_exist.score + 5 * ClaimedScam(x.scam_reports.reports_count)

\* C5: the final score is an integer nearest to the weighted sum of the ten
\* sub-scores with weights 0.20, 0.15, 0.10, 0.05, 0.10, 0.10, 0.10, 0.10,
\* 0.05, 0.05 (sum 1.00), where the scam-report sub-score is
\* max(0, 100 - 15 n): 100 for no report, 55 for three, 0 from seven on.
C5_NearestOfWeightedSum ==
    agg.done =>
        LET n == agg.input.scam_reports.reports_count
            d == 100 * agg.out.score - ClaimedSum(agg.input)
        IN /\ d \in -50..50
           /\ trust_scam(n) = ClaimedScam(n)
           /\ (n = 0 => trust_scam(n) = 100)
           /\ (n = 3 => trust_scam(n) = 55)
           /\ (n >= 7 => trust_scam(n) = 0)
           /\ weights.company + weights.language + weights.salary + weights.links
              + weights.interview + weights.structure + weights.document + weights.role
              + weights.company_exist + weights.scam = 100

\* a sum that does not end in .00, aggregated with seven or more reports
C5_Witness ==
    /\ agg.done
    /\ agg.input.scam_reports.reports_count >= 7
    /\ ClaimedSum(agg.input) % 100 \notin {0, 50}
    /\ 100 * agg.out.score > ClaimedSum(agg.input)

\* C6: the verdict is "Likely Genuine" exactly for a final score of 80 or
\* more, "Needs Verification" exactly for 60 to 79, "High Scam Risk" exactly
\* below 60.
C6_VerdictThresholds ==
    agg.done =>
        LET o == agg.out
        IN /\ (o.verdict = "Likely Genuine") <=> (o.score >= 80)
           /\ (o.verdict = "Needs Verification") <=> (o.score >= 60 /\ o.score <= 79)
           /\ (o.verdict = "High Scam Risk") <=> (o.score < 60)
           /\ o.verdict \in {"Likely Genuine", "Needs Verification", "High Scam Risk"}

\* a score on the upper threshold
C6_Witness == agg.done /\ agg.out.score = 80 /\ agg.out.verdict = "Likely Genuine"

\* the derived summary notes of the aggregation's input
DerivedNotes(x) ==
    (IF x.lang_risk.risk_phrases # <<>>
     THEN <<Flag("High-risk language patterns detected: {list}",
                 JoinComma([i \in DOMAIN x.lang_risk.risk_phrases |->
                               PatternText(x.lang_risk.risk_phrases[i])]), <<>>)>>
     ELSE <<>>)
    \o (IF x.lang_risk.whatsapp_telegram_mentions # <<>>
        THEN <<Flag("Mentions of WhatsApp/Telegram/Signal in the offer text, which is unusual for formal offers.",
                    <<>>, <<>>)>>
        ELSE <<>>)
    \o (IF x.link_risk.suspicious_links # <<>>
        THEN <<Flag("Suspicious links found: {list}",
                    JoinComma(x.link_risk.suspicious_links), <<>>)>>
        ELSE <<>>)
    \o (IF x.scam_reports.reports_count > 0
        THEN <<ScamReportNote(x.scam_reports.reports_count)>>
        ELSE <<>>)
    \o (IF x.structure_res.missing_sections # <<>>
        THEN <<Flag("Missing important sections: {list}",
                    JoinComma([i \in DOMAIN x.structure_res.missing_sections |->
                                  <<x.structure_res.missing_sections[i]>>]), <<>>)>>
        ELSE <<>>)

First12(l) == IF Len(l) <= 12 THEN l ELSE [i \in 1..12 |-> l[i]]

\* the candidate reasons in the order of the checks' sections
ReasonsInCheckOrder(x) ==
    x.company_auth.flags \o x.salary_check.flags \o x.interview_res.flags
    \o x.company_exist.flags \o DerivedNotes(x)

\* the candidate reasons in the order the aggregation collects them
ReasonsInCodeOrder(x) ==
    x.company_auth.flags \o x.company_exist.flags \o x.salary_check.flags
    \o x.interview_res.flags \o DerivedNotes(x)

\* C7 as claimed: the reasons are the first 12 of the flags of company
\* authenticity, salary, interview and company existence, in that order,
\* followed by the derived notes.
C7_CheckOrder ==
    agg.done => agg.out.reasons = First12(ReasonsInCheckOrder(agg.input))

\* C7: the reasons are the first 12 entries (fewer if fewer exist) of the
\* flags of company authenticity, company existence, salary and interview, in
\* that order, followed by the derived notes (risk-phrase list,
\* informal-channel note, suspicious-link list, scam-report note for a count
\* above zero, missing-sections note); never more than 12, neither reordered
\* nor deduplicated.
C7_CodeOrder ==
    agg.done =>
        /\ agg.out.reasons = First12(ReasonsInCodeOrder(agg.input))
        /\ Len(agg.out.reasons) <= 12

\* thirteen candidates cut to twelve, with one text given by two checks and
\* kept twice
C7_Witness ==
    /\ agg.done
    /\ Len(ReasonsInCodeOrder(agg.input)) = 13
    /\ Len(agg.out.reasons) = 12
    /\ agg.input.company_exist.flags # <<>>
    /\ agg.input.salary_check.flags # <<>>
    /\ \E i, j \in DOMAIN agg.out.reasons : i < j /\ agg.out.reasons[i] = agg.out.reasons[j]

\* the text a request's raw_text holds, lowered
RequestText == lower(StrOf(request.data.raw_text))

\* the interview a request reports
RequestInterview == request.data.interview

FreeEmailFlag(r) == r.msg = "HR email uses free provider ({domain})."
RiskPhraseNote(r) == r.msg = "High-risk language patterns detected: {list}"

\* the scam scenario: both phrases in the text, no interview, an HR address
\* at a free-mail provider, no structure keyword, no scam report
ScamScenario ==
    /\ VerifyOk
    /\ In("processing fee", RequestText)
    /\ In("whatsapp only for communication", RequestText)
    /\ \/ RequestInterview.t \in {"missing", "null"}
       \/ RequestInterview.t = "dict" /\ ~Truthy(RequestInterview.d.had_interview)
    /\ IsStr(request.data.hr_email)
    /\ LET domain == _extract_domain_from_email(request.data.hr_email).domain
       IN IsStr(domain) /\ domain.s \in FREE_EMAIL_DOMAINS
    /\ \A k \in DOMAIN SECTION_KEYS :
          \A kw \in SECTION_KEYWORDS(SECTION_KEYS[k]) : ~In(kw, RequestText)
    /\ response.scam_reports.reports_count = 0

\* C8: in the scam scenario /verify answers "High Scam Risk" with a final
\* score below 60, and the reasons hold the free-email flag and a
\* risk-phrase note, whatever the probes, the summarizer and the salary
\* fields give.
C8_ScamScenario ==
    ScamScenario =>
        LET t == response.analysis.final_trust
        IN /\ t.verdict = "High Scam Risk"
           /\ t.score < 60
           /\ \E i \in DOMAIN t.reasons : FreeEmailFlag(t.reasons[i])
           /\ \E i \in DOMAIN t.reasons : RiskPhraseNote(t.reasons[i])

\* the channels of the requests that name a video channel
VideoChannels == {<<"Zoom">>, <<"Video Call">>}

\* the genuine scenario: no risk phrase and no informal-channel match, a
\* listed official HR address of a known company on a domain that answers
\* over HTTPS, a salary inside its benchmark range, every structure section
\* found, a 30 minute interview over a video channel with technical
\* questions, no scam report
GenuineScenario ==
    /\ VerifyOk
    /\ Hits(RISKY_LANGUAGE_PATTERNS, RequestText) = <<>>
    /\ Hits(WHATSAPP_TELEGRAM_PATTERNS, RequestText) = <<>>
    /\ IsStr(request.data.hr_email) /\ IsStr(request.data.company_name)
    /\ InList(lower(strip(request.data.hr_email.s)),
              OFFICIAL_HR_EMAILS(lower(strip(request.data.company_name.s))))
    /\ request.env.net_auth.dns /\ request.env.net_auth.https
    /\ request.env.net_exist.dns /\ request.env.net_exist.https
    /\ LET amount == _parse_salary_amount(request.data.salary_amount)
           bench == Benchmark(Get(request.data, "salary_period", Str(<<"month">>)),
                              Get(request.data, "job_role", Str(<<>>)),
                              Get(request.data, "region_hint", Str(<<"india">>)))
       IN /\ ~amount.none /\ bench # <<>>
          /\ amount.x100 >= 100 * bench[1] /\ amount.x100 <= 100 * bench[2]
    /\ \A k \in DOMAIN SECTION_KEYS :
          \E kw \in SECTION_KEYWORDS(SECTION_KEYS[k]) : In(kw, RequestText)
    /\ RequestInterview.t = "dict"
    /\ RequestInterview.d.had_interview = Bool(TRUE)
    /\ RequestInterview.d.channel \in {Str(c) : c \in VideoChannels}
    /\ RequestInterview.d.duration_minutes = Num(30)
    /\ RequestInterview.d.asked_technical = Bool(TRUE)
    /\ response.scam_reports.reports_count = 0

\* C9: in the genuine scenario /verify answers "Likely Genuine" with a final
\* score of 80 or more, for every outcome of the summarizer.
C9_GenuineScenario ==
    GenuineScenario =>
        /\ response.analysis.final_trust.verdict = "Likely Genuine"
        /\ response.analysis.final_trust.score >= 80

\* C10: no error of a sub-check is fatal: a /verify request whose raw_text is
\* a non-empty text is answered with the analysis, whatever the shapes of the
\* optional fields.
C10_NeverFatal ==
    (/\ request.endpoint = "/verify"
     /\ IsStr(request.data.raw_text)
     /\ strip(request.data.raw_text.s) # <<>>)
        => response.status = 200

\* the summarizer gave no text: no credentials, no client library, or the
\* call raised
SummarizerUnavailable(llm) == ~llm.api_key \/ ~llm.client \/ llm.raises

\* the integer of the first "SCORE: <integer>" of the summarizer's answer,
\* -1 when it holds none
AnswerScore(llm) == IF IsStr(llm.content) THEN FirstScore(llm.content.s) ELSE -1

\* the score the claim gives a delegated check
DelegatedScore(llm) ==
    IF SummarizerUnavailable(llm) \/ AnswerScore(llm) < 0 THEN 60
    ELSE IF AnswerScore(llm) > 100 THEN 100
    ELSE AnswerScore(llm)

\* C11: the two delegated checks never fail the pipeline: a /verify request
\* is answered 200 or not whatever the summarizer does, and in the answer the
\* score of each delegated check is 60 when the summarizer is unavailable or
\* its output holds no "SCORE: <integer>", and the matched integer clamped to
\* [0, 100] otherwise.
C11_DelegatedChecks ==
    /\ VerifyOk =>
          /\ response.analysis.document_integrity.score = DelegatedScore(request.env.llm_doc)
          /\ response.analysis.role_consistency.score = DelegatedScore(request.env.llm_role)
    /\ (request.endpoint = "/verify" /\ request.data = ShapeBase) => response.status = 200

\* one call raised and the other answered beyond the range
C11_Witness ==
    /\ VerifyOk
    /\ request.env.llm_doc.raises
    /\ response.analysis.document_integrity.score = 60
    /\ AnswerScore(request.env.llm_role) = 250
    /\ response.analysis.role_consistency.score = 100

\* the raw text of a payload is missing or empty after trimming
RawTextEmpty(d) ==
    \/ d.raw_text.t \in {"missing", "null"}
    \/ IsStr(d.raw_text) /\ strip(d.raw_text.s) = <<>>

\* C12: a /verify request whose raw text is missing or empty after trimming
\* is answered with the error alone: status 400, no analysis and no score in
\* the answer, no probe and no summarizer call made, the report store as it
\* was.
C12_RejectedBeforePipeline ==
    [][(request'.endpoint = "/verify" /\ RawTextEmpty(request'.data)) =>
          /\ response'.status = 400
          /\ DOMAIN response' = {"status", "error"}
          /\ calls' = <<>>
          /\ file' = file
      ]_vars

\* a whitespace-only text with every other field given, the store holding
\* reports
C12_Witness ==
    /\ request.endpoint = "/verify"
    /\ request.data.raw_text = Str(<<" ", "\n">>)
    /\ IsStr(request.data.hr_email) /\ request.env.net_auth.dns
    /\ response.status = 400
    /\ calls = <<>>
    /\ file.exists /\ _load_scam_reports(file) # EmptyDict

\* C13: scoring is read-only and repeatable: a /verify or /status step
\* changes neither the report store nor any other shared state, and the
\* handler run again on the same request in the state it left gives the
\* answer it gave.
C13_ScoringReadOnly ==
    [][(request'.endpoint \in {"/verify", "/status"}) =>
          /\ file' = file
          /\ workers' = workers /\ acked' = acked /\ agg' = agg
          /\ response' = IF request'.endpoint = "/verify"
                         THEN verify(request'.data, request'.env, file')
                         ELSE status(request'.offer_hash, file')
      ]_vars

\* an answered /verify that read a reported hash from the store and made
\* external calls
C13_Witness ==
    /\ VerifyOk
    /\ response.scam_reports.reports_count > 0
    /\ calls # <<>>
    /\ StoredCount(file, response.offer_hash) = response.scam_reports.reports_count

\* the words of a text: its maximal runs of tokens other than whitespace,
\* lower-cased
RECURSIVE WordsFrom(_, _)
WordsFrom(s, word) ==
    IF s = <<>> THEN (IF word = <<>> THEN <<>> ELSE <<word>>)
    ELSE IF Head(s) \in Whitespace
         THEN (IF word = <<>> THEN <<>> ELSE <<word>>) \o WordsFrom(Tail(s), <<>>)
         ELSE WordsFrom(Tail(s), Append(word, LowerTok(Head(s))))

\* two texts differ in whitespace and letter case only
SameNormalForm(t, u) == WordsFrom(t, <<>>) = WordsFrom(u, <<>>)

\* the texts of the requests
KnownTexts == {ScamText, ScamTextLoud, GenuineText, PlainText, LinkText, JoiningText}

\* what /verify answers for a text in a state of the store
VerifyOf(u, f) == verify([ShapeBase EXCEPT !.raw_text = Str(u)], ShapeEnv, f)

\* C14: the content hash depends only on the normalized text: two texts that
\* differ in whitespace and letter case only have the same hash, and the
\* reports filed through /report-scam with one text are counted for every
\* such text: once every report has been answered, /verify returns for the
\* text the number of answered reports of its hash, and /status returns it
\* for the hash /verify gave.
C14_HashOfNormalForm ==
    /\ \A t, u \in KnownTexts :
          SameNormalForm(t, u) => compute_offer_hash(t) = compute_offer_hash(u)
    /\ (\A w \in DOMAIN workers : workers[w].pc = "idle") =>
          \A t, u \in KnownTexts :
             SameNormalForm(t, u) =>
                /\ VerifyOf(u, file).scam_reports.reports_count
                      = Answered(StoredKey(Str(compute_offer_hash(t))))
                /\ status(VerifyOf(u, file).offer_hash, file).reports_count
                      = Answered(StoredKey(Str(compute_offer_hash(t))))

\* the HR address and the company name of the request, trimmed and
\* lower-cased (an absent or empty one is the empty text)
HrAddress ==
    LET v == request.data.hr_email
    IN IF v.t = "str" THEN lower(strip(v.s)) ELSE <<>>
CompanyKey ==
    LET v == request.data.company_name
    IN IF v.t = "str" THEN lower(strip(v.s)) ELSE <<>>

\* the part of the address after its first "@"
RECURSIVE AfterAt(_)
AfterAt(e) ==
    IF e = <<>> THEN <<>> ELSE IF Head(e) = "@" THEN Tail(e) ELSE AfterAt(Tail(e))
HrDomain == AfterAt(HrAddress)

\* the calls made before the summarizer is first called: those of the
\* company authenticity check, which runs first
RECURSIVE UpToLlm(_)
UpToLlm(c) ==
    IF c = <<>> \/ Head(c) = "llm" THEN <<>> ELSE <<Head(c)>> \o UpToLlm(Tail(c))

FlagMsgs(flags) == {flags[i].msg : i \in DOMAIN flags}
AuthNet == request.env.net_auth
AuthHttp == AuthNet.dns /\ AuthNet.http
AuthHttps == AuthNet.dns /\ AuthNet.https
AuthPenalties ==
    (IF HrDomain \in FREE_EMAIL_DOMAINS THEN 35 ELSE 0)
    + (IF /\ OFFICIAL_HR_EMAILS(CompanyKey) # <<>>
          /\ \A i \in DOMAIN OFFICIAL_HR_EMAILS(CompanyKey) :
                OFFICIAL_HR_EMAILS(CompanyKey)[i] # HrAddress
       THEN 25 ELSE 0)
    + (IF ~(AuthHttp \/ AuthHttps) THEN 20 ELSE 0)
    + (IF AuthHttp /\ ~AuthHttps THEN 10 ELSE 0)

\* C15: company authenticity.  Without a domain in the HR address the score
\* is 75 with the no-valid-domain flag and nothing is probed; otherwise the
\* score is 100 less 35 (free-mail domain), 25 (known company, address not
\* official), 20 (neither HTTP nor HTTPS answered) and 10 (HTTP answered,
\* HTTPS did not), kept within 0..100; when the name does not resolve the
\* domain is unreachable and neither HTTP nor HTTPS is requested.
C15_CompanyAuthenticity ==
    VerifyOk =>
      LET res == response.analysis.company_authenticity
          summarized == LlmCalled(request.env.llm_doc) # <<>>
      IN IF HrDomain = <<>>
         THEN /\ res.score = 75
              /\ FlagMsgs(res.flags) = {"No valid HR email domain found."}
              /\ \A i \in DOMAIN calls : calls[i] = "llm"
         ELSE /\ res.score = Max(0, Min(100, 100 - AuthPenalties))
              /\ ~AuthNet.dns =>
                    /\ ~res.domain_reachable
                    /\ "Company email domain does not appear to be reachable."
                          \in FlagMsgs(res.flags)
                    /\ summarized => UpToLlm(calls) = <<"dns">>
              /\ (AuthNet.dns /\ summarized) => UpToLlm(calls) = <<"dns", "http", "https">>

\* the name of a free-mail domain does not resolve although a server would
\* answer: 100 - 35 - 20, one lookup and no request
C15_Witness ==
    /\ VerifyOk
    /\ request.data.hr_email = Str(<<" ", "hr", "@", "yahoo.com", "\n">>)
    /\ ~AuthNet.dns /\ AuthNet.http /\ AuthNet.https
    /\ response.analysis.company_authenticity.score = 45
    /\ UpToLlm(calls) = <<"dns">>

\* the interview of the request, field by field
IvField(k) ==
    LET iv == request.data.interview
    IN IF iv.t = "dict" THEN Get(iv.d, k, Null) ELSE Null
IvOccurred == Truthy(IvField("had_interview"))
IvChannelHas(needle) ==
    IvField("channel").t = "str" /\ In(needle, lower(IvField("channel").s))
IvMessenger == IvOccurred /\ (IvChannelHas("whatsapp") \/ IvChannelHas("telegram"))
IvAudio == IvOccurred /\ (IvChannelHas("phone") \/ IvChannelHas("call"))
IvMinutes == IF IvField("duration_minutes").t = "null"
             THEN [ok |-> FALSE, n |-> 0] ELSE IntOf(IvField("duration_minutes"))
IvUnder5 == IvMinutes.ok /\ IvMinutes.n < 5
IvShort == IvMinutes.ok /\ IvMinutes.n >= 5 /\ IvMinutes.n <= 14
IvNoTechnical == IvField("asked_technical") = Bool(FALSE)

\* the penalty and the flags of the interview check when the audio-call
\* condition is in force (audio: whether it is)
IvPenalty(audio) ==
    (IF ~IvOccurred THEN 35 ELSE 0) + (IF IvMessenger THEN 30 ELSE 0)
    + (IF audio THEN 10 ELSE 0) + (IF IvUnder5 THEN 20 ELSE 0)
    + (IF IvShort THEN 10 ELSE 0) + (IF IvNoTechnical THEN 20 ELSE 0)
IvFlags(audio) ==
    (IF ~IvOccurred THEN {"Candidate reports no interview occurred before offer."} ELSE {})
    \cup (IF IvMessenger THEN {"Interview was conducted via WhatsApp/Telegram."} ELSE {})
    \cup (IF audio THEN {"Interview was only an audio call; verify carefully."} ELSE {})
    \cup (IF IvUnder5 THEN {"Interview duration was less than 5 minutes."} ELSE {})
    \cup (IF IvShort THEN {"Interview duration was very short (< 15 minutes)."} ELSE {})
    \cup (IF IvNoTechnical
          THEN {"No technical questions were asked for a technical-looking role."}
          ELSE {})
IvResult(audio) ==
    LET res == response.analysis.interview_plausibility
    IN /\ res.score = Max(0, 100 - IvPenalty(audio))
       /\ FlagMsgs(res.flags) = IvFlags(audio)
       /\ Len(res.flags) = Cardinality(IvFlags(audio))

\* C16 as stated: the interview penalties are independent and additive, the
\* score being max(0, 100 - the sum of the penalties of every condition that
\* holds), the audio-call condition (channel contains "phone" or "call")
\* included whenever an interview occurred, each with its flag.
C16_Additive == VerifyOk => IvResult(IvAudio)

\* C16, amended: the same, except that the audio-call penalty and flag apply
\* only when the channel contains neither "whatsapp" nor "telegram".
C16_ChannelExclusive == VerifyOk => IvResult(IvAudio /\ ~IvMessenger)

\* an interview over a WhatsApp call, long enough and technical: 70, with the
\* WhatsApp flag alone
C16_Witness ==
    /\ VerifyOk
    /\ IvMessenger /\ IvAudio /\ ~IvUnder5 /\ ~IvShort /\ ~IvNoTechnical
    /\ response.analysis.interview_plausibility.score = 70

\* the benchmark range of the request (none: no benchmark for its key)
RequestBenchmark ==
    Benchmark(Get(request.data, "salary_period", Str(<<"month">>)),
              Get(request.data, "job_role", Str(<<>>)),
              Get(request.data, "region_hint", Str(<<"india">>)))

\* C17: salary plausibility.  With a parsed amount and a benchmark range
\* [low, high] the penalty is 30 exactly when amount < 0.3 low, 40 exactly
\* when amount > 2 high, 15 exactly when 1.3 high < amount <= 2 high, and 0
\* otherwise, so that amounts of exactly 0.3 low and 1.3 high are not
\* penalized and one of exactly 2 high loses 15; without a parsed amount or
\* without a benchmark the score is 100.
C17_SalaryBoundaries ==
    VerifyOk =>
      LET res == response.analysis.salary_plausibility
          bench == RequestBenchmark
          penalty == 100 - res.score
          x100 == res.parsed_amount.x100
          low100 == 100 * bench[1]
          high100 == 100 * bench[2]
      IN IF res.parsed_amount.none \/ bench = <<>>
         THEN res.score = 100
         ELSE /\ penalty \in {0, 15, 30, 40}
              /\ penalty = 30 <=> 10 * x100 < 3 * low100
              /\ penalty = 40 <=> x100 > 2 * high100
              /\ penalty = 15 <=> (10 * x100 > 13 * high100 /\ x100 <= 2 * high100)
              /\ 10 * x100 = 3 * low100 => penalty = 0
              /\ 10 * x100 = 13 * high100 => penalty = 0
              /\ x100 = 2 * high100 => penalty = 15

\* an amount of exactly 130% of the upper end of its benchmark, not penalized
C17_Witness ==
    /\ VerifyOk
    /\ RequestBenchmark # <<>>
    /\ ~response.analysis.salary_plausibility.parsed_amount.none
    /\ 10 * response.analysis.salary_plausibility.parsed_amount.x100
          = 13 * 100 * RequestBenchmark[2]
    /\ response.analysis.salary_plausibility.score = 100

\* a /setup request that carries the text under offer_text and has no raw_text
LegacyBody ==
    /\ request.endpoint = "/setup"
    /\ request.data.raw_text = Missing
    /\ request.data.offer_text # Missing

\* C18: a POST to /setup whose body carries the offer text under offer_text
\* and has no raw_text is answered as a /verify request with raw_text set to
\* that text is: the same status, hash, report count and analysis, after the
\* same external calls, and no missing-raw_text error for a text that is not
\* blank.
C18_SetupAsVerify ==
    LegacyBody =>
      LET body == [request.data EXCEPT !.raw_text = request.data.offer_text]
      IN /\ response = verify(body, request.env, file)
         /\ calls = verify_calls(body, request.env)
         /\ (/\ request.data.offer_text.t = "str"
             /\ strip(request.data.offer_text.s) # <<>>) =>
               /\ response.status = 200
               /\ response.offer_hash = compute_offer_hash(request.data.offer_text.s)
               /\ response.analysis = verify_offer(body, request.env)

\* the scam text sent to /setup under offer_text after it was reported:
\* analysed, with its reports
C18_Witness ==
    /\ LegacyBody
    /\ request.data.offer_text = Str(ScamTextLoud)
    /\ response.status = 200
    /\ response.scam_reports.reports_count > 0
    /\ response.analysis.language_risk.score < 100
    /\ calls # <<>>

====
